---- MODULE Spec2Model ----
(***************************************************************************)
(* State-machine model of the javis-auth-challenge authentication core:    *)
(* the token codec (lib/auth/jwt.ts), the constrained verifier             *)
(* (lib/auth/edge-jwt.ts), the cookie helpers, the rate limiter            *)
(* (lib/auth/rate-limiter.ts), the route guard (middleware.ts) and the     *)
(* /api/auth endpoints.                                                    *)
(*                                                                         *)
(* Time is the wall clock in milliseconds (Date.now()).  A token string    *)
(* "h.c.s" is the sequence of its '.'-separated segments.  A segment is    *)
(* the base64url text of a byte string; a JSON text is the sequence of its *)
(* <<key, value>> members.  HMAC-SHA256 is symbolic: the signature of a    *)
(* signing input under a key is the term [mac |-> <<key, h, c>>], so two   *)
(* signatures are equal iff key and signing input are equal.               *)
(***************************************************************************)
EXTENDS Integers, Sequences, FiniteSets, TLC

VARIABLES
    now,        \* Date.now(), milliseconds
    env,        \* process.env: JWT_SECRET, JWT_EXPIRES_IN
    users,      \* the user table (prisma.user)
    issued,     \* every token returned by createToken so far (history)
    limiters,   \* rate-limiter.ts: Map<string, RateLimiter>
    pending,    \* checkRateLimit calls suspended in the limiter's wait()
    hist,       \* per identity, the completed checkRateLimit calls (history)
    ticks,      \* clock steps taken by the rate-limiter specifications
    last,       \* the last call or request and its outcome
    browser     \* a browser: its cookies, its location, the Dashboard page

(***************************************************************************)
(* Bounds of the model.                                                    *)
(***************************************************************************)
StartSec == 5            \* the clock (in seconds) when the process starts
MaxCodecSec == 7         \* the codec specification stops the clock here
MaxIssued == 1           \* tokens issued in one behaviour
MaxTicks == 3            \* clock steps of the rate-limiter specification
MaxCalls == 8            \* checkRateLimit calls in one behaviour
MaxTicks2 == 1           \* the same, with two identities
MaxCalls2 == 7

(***************************************************************************)
(* JavaScript values.                                                      *)
(***************************************************************************)
Undefined == "<undefined>"
Null == [null |-> TRUE]
Throws == [throws |-> TRUE]

\* process.env.X || dflt : an unset or empty variable is falsy
OrDefault(v, dflt) == IF v = <<>> THEN dflt ELSE v

\* parseInt of a string of decimal digits (a sequence of digits)
RECURSIVE parseInt(_)
parseInt(s) ==
    IF s = <<>> THEN 0
    ELSE 10 * parseInt(SubSeq(s, 1, Len(s) - 1)) + s[Len(s)]

\* Math.floor(ms / 1000)
FloorSec(ms) == ms \div 1000

(***************************************************************************)
(* JSON.  An object is a function from the keys whose value is defined (a  *)
(* key whose value is undefined is left out by JSON.stringify).  The       *)
(* empty string "" of an identifier is the empty sequence.                 *)
(***************************************************************************)
KeyOrder == <<"sub", "email", "name", "iat", "exp", "alg", "typ">>

RECURSIVE StringifyFrom(_, _)
StringifyFrom(obj, i) ==
    IF i > Len(KeyOrder) THEN <<>>
    ELSE LET k == KeyOrder[i]
         IN  IF k \in DOMAIN obj
             THEN <<<<k, obj[k]>>>> \o StringifyFrom(obj, i + 1)
             ELSE StringifyFrom(obj, i + 1)

JSONstringify(obj) == StringifyFrom(obj, 1)

\* a text JSON.parse accepts: every member is a key/value pair
IsJson(text) == \A i \in DOMAIN text : Len(text[i]) = 2

JSONparse(text) ==
    [k \in {text[i][1] : i \in DOMAIN text} |->
        LET i == CHOOSE j \in DOMAIN text : text[j][1] = k IN text[i][2]]

\* obj.k : undefined when the object has no such key
Get(obj, k) == IF k \in DOMAIN obj THEN obj[k] ELSE Undefined
Has(obj, k) == k \in DOMAIN obj

(***************************************************************************)
(* base64url.  Buffer-based decoding (Node) returns the UTF-8 text; atob   *)
(* returns one character per byte, so a non-ASCII string value comes back  *)
(* as its UTF-8 bytes read as Latin-1.                                     *)
(***************************************************************************)
NonAscii == {"Zo<U+00EB>"}
Latin1(v) == IF v \in NonAscii THEN "Zo<C3><AB>" ELSE v

B64Url(text) == [b64url |-> text]
BufferDecode(seg) == seg.b64url
atob(seg) == [i \in DOMAIN seg.b64url |->
                 IF Len(seg.b64url[i]) = 2
                 THEN <<seg.b64url[i][1],
                        IF seg.b64url[i][1] = "name"
                        THEN Latin1(seg.b64url[i][2]) ELSE seg.b64url[i][2]>>
                 ELSE seg.b64url[i]]

(***************************************************************************)
(* JWS (HS256) as jsonwebtoken uses it.                                    *)
(***************************************************************************)
HmacAlgs == {"HS256"}
JwtHeader == [alg |-> "HS256", typ |-> "JWT"]
EmptySig == [mac |-> <<>>]
Hmac(key, h, c) == [mac |-> <<key, h, c>>]

\* jwt.sign(payload, secret, { expiresIn }): iat = floor(now / 1000),
\* exp = iat + expiresIn, then header.payload.signature
jwt_sign(payload, secret, expiresIn, t) ==
    LET iat == FloorSec(t)
        claims == [k \in (DOMAIN payload) \cup {"iat", "exp"} |->
                     IF k = "iat" THEN iat
                     ELSE IF k = "exp" THEN iat + expiresIn
                     ELSE payload[k]]
        h == B64Url(JSONstringify(JwtHeader))
        c == B64Url(JSONstringify(claims))
    IN  <<h, c, Hmac(secret, h, c)>>

\* Variant: the clock in milliseconds compared with exp (seconds).
jwt_verify_ms(token, secret, t) ==
    IF Len(token) # 3 THEN Throws
    ELSE IF ~IsJson(BufferDecode(token[1])) THEN Throws
    ELSE
      LET header == JSONparse(BufferDecode(token[1]))
          text == BufferDecode(token[2])
          payload == IF IsJson(text) THEN JSONparse(text) ELSE [raw |-> text]
      IN  IF token[3] = EmptySig THEN Throws
          ELSE IF Get(header, "alg") \notin HmacAlgs THEN Throws
          ELSE IF token[3] # Hmac(secret, token[1], token[2]) THEN Throws
          ELSE IF Has(payload, "exp") /\ t >= payload.exp THEN Throws
          ELSE payload

\* Variant: jwt.decode in place of jwt.verify (no signature check).
jwt_verify_unsigned(token, secret, t) ==
    IF Len(token) # 3 THEN Throws
    ELSE IF ~IsJson(BufferDecode(token[1])) THEN Throws
    ELSE
      LET text == BufferDecode(token[2])
          payload == IF IsJson(text) THEN JSONparse(text) ELSE [raw |-> text]
      IN  IF Has(payload, "exp") /\ FloorSec(t) >= payload.exp THEN Throws
          ELSE payload

\* jwt.verify(token, secret): the decoded payload, or Throws
jwt_verify(token, secret, t) ==
    IF Len(token) # 3 THEN Throws                          \* jwt malformed
    ELSE IF ~IsJson(BufferDecode(token[1])) THEN Throws     \* invalid token
    ELSE
      LET header == JSONparse(BufferDecode(token[1]))
          text == BufferDecode(token[2])
          payload == IF IsJson(text) THEN JSONparse(text) ELSE [raw |-> text]
      IN  IF token[3] = EmptySig THEN Throws               \* signature required
          ELSE IF Get(header, "alg") \notin HmacAlgs THEN Throws
          ELSE IF token[3] # Hmac(secret, token[1], token[2]) THEN Throws
          ELSE IF Has(payload, "exp") /\ FloorSec(t) >= payload.exp THEN Throws
          ELSE payload

(***************************************************************************)
(* lib/auth/jwt.ts                                                         *)
(***************************************************************************)
ExpiresIn == parseInt(OrDefault(env.JWT_EXPIRES_IN, <<8, 6, 4, 0, 0>>))

\* createToken({ sub, email, name }): the token, or Throws
createToken(payload) ==
    IF env.JWT_SECRET = "" THEN Throws
    ELSE jwt_sign(payload, env.JWT_SECRET, ExpiresIn, now)

\* Variant: the token of the browser that logged out last is refused.
verifyTokenRevoked(token) ==
    IF env.JWT_SECRET = "" THEN Throws
    ELSE IF /\ last.op = "logout"
            /\ "auth_token" \in DOMAIN last.request.cookies
            /\ last.request.cookies["auth_token"] = token
    THEN Null
    ELSE LET decoded == jwt_verify(token, env.JWT_SECRET, now)
         IN  IF decoded = Throws THEN Null ELSE decoded

\* verifyToken(token): the payload, Null, or Throws
verifyToken(token) ==
    IF env.JWT_SECRET = "" THEN Throws
    ELSE LET decoded == jwt_verify(token, env.JWT_SECRET, now)
         IN  IF decoded = Throws THEN Null ELSE decoded

(***************************************************************************)
(* lib/auth/edge-jwt.ts.  The environment and the clock are parameters so  *)
(* that the function can be evaluated under another environment.           *)
(***************************************************************************)
Truthy(obj, k) == Has(obj, k) /\ obj[k] # <<>>

\* Variant: the signature is checked against the configured secret.
simpleVerifyTokenSigned(e, ms, token) ==
    IF Len(token) # 3 THEN Null
    ELSE IF token[3] # Hmac(e.JWT_SECRET, token[1], token[2]) THEN Null
    ELSE
      LET text == atob(token[2])
      IN  IF ~IsJson(text) THEN Null
          ELSE
            LET payload == JSONparse(text)
            IN  IF ~Truthy(payload, "sub") \/ ~Truthy(payload, "email") THEN Null
                ELSE IF Has(payload, "exp") /\ payload.exp # 0
                        /\ ms >= payload.exp * 1000 THEN Null
                ELSE [k \in (DOMAIN payload)
                               \cap {"sub", "email", "name", "iat", "exp"} |->
                         payload[k]]

\* Variant: a token is still accepted at the very moment it expires.
simpleVerifyTokenInclusive(e, ms, token) ==
    IF Len(token) # 3 THEN Null
    ELSE
      LET text == atob(token[2])
      IN  IF ~IsJson(text) THEN Null
          ELSE
            LET payload == JSONparse(text)
            IN  IF ~Truthy(payload, "sub") \/ ~Truthy(payload, "email") THEN Null
                ELSE IF Has(payload, "exp") /\ payload.exp # 0
                        /\ ms > payload.exp * 1000 THEN Null
                ELSE [k \in (DOMAIN payload)
                               \cap {"sub", "email", "name", "iat", "exp"} |->
                         payload[k]]

simpleVerifyTokenIn(e, ms, token) ==
    IF Len(token) # 3 THEN Null
    ELSE
      LET text == atob(token[2])
      IN  IF ~IsJson(text) THEN Null                  \* JSON.parse throws: caught
          ELSE
            LET payload == JSONparse(text)
            IN  IF ~Truthy(payload, "sub") \/ ~Truthy(payload, "email") THEN Null
                ELSE IF Has(payload, "exp") /\ payload.exp # 0
                        /\ ms >= payload.exp * 1000 THEN Null
                ELSE [k \in (DOMAIN payload)
                               \cap {"sub", "email", "name", "iat", "exp"} |->
                         payload[k]]

simpleVerifyToken(token) == simpleVerifyTokenIn(env, now, token)

(***************************************************************************)
(* lib/auth/rate-limiter.ts, with the RateLimiter of the limiter package   *)
(* (a TokenBucket plus a per-interval count).  The bucket content is       *)
(* counted in drips, the amount that drips in per millisecond, so that     *)
(* one token is interval / tokensPerInterval drips and all arithmetic is   *)
(* exact.  The package computes the content in floating point: rounding    *)
(* can leave the content a hair under a whole token, and then a call the   *)
(* exact bucket lets through is suspended for a millisecond first; it      *)
(* never lets through a call the exact bucket holds back.                  *)
(***************************************************************************)
ATTEMPTS_PER_MINUTE == 5
WINDOW_SIZE_MS == 60000

DripsPerToken == WINDOW_SIZE_MS \div ATTEMPTS_PER_MINUTE
BucketSize == ATTEMPTS_PER_MINUTE * DripsPerToken

Min(a, b) == IF a <= b THEN a ELSE b
Max(a, b) == IF a >= b THEN a ELSE b

\* Variant: the bucket is not filled at construction.
NewRateLimiterEmpty(t) ==
    [content |-> 0, lastDrip |-> t, curIntervalStart |-> t,
     tokensThisInterval |-> 0]

\* new RateLimiter({ tokensPerInterval, interval, fireImmediately: true }):
\* the bucket starts full
NewRateLimiter(t) ==
    [content |-> BucketSize, lastDrip |-> t, curIntervalStart |-> t,
     tokensThisInterval |-> 0]

\* Variant: what drips in is added without regard to the bucket size.
dripUncapped(l, t) ==
    [l EXCEPT !.content = @ + Max(t - l.lastDrip, 0), !.lastDrip = t]

\* TokenBucket.drip()
drip(l, t) ==
    [l EXCEPT !.content = Min(@ + Max(t - l.lastDrip, 0), BucketSize),
              !.lastDrip = t]

\* Variant: a removal leaves the bucket content as it is.
TokenBucket_removeTokens_keep(l, t) ==
    LET d == drip(l, t)
    IN  IF DripsPerToken > d.content
        THEN [limiter |-> d, waiting |-> TRUE,
              waitMs |-> DripsPerToken - d.content, remaining |-> 0]
        ELSE [limiter |-> d, waiting |-> FALSE, waitMs |-> 0,
              remaining |-> d.content]

\* TokenBucket.removeTokens(1): drip, then either take one token or wait
\* for the missing part of it
TokenBucket_removeTokens(l, t) ==
    LET d == drip(l, t)
    IN  IF DripsPerToken > d.content
        THEN [limiter |-> d, waiting |-> TRUE,
              waitMs |-> DripsPerToken - d.content, remaining |-> 0]
        ELSE [limiter |-> [d EXCEPT !.content = @ - DripsPerToken],
              waiting |-> FALSE, waitMs |-> 0,
              remaining |-> d.content - DripsPerToken]

\* the continuation of RateLimiter.removeTokens after the bucket's answer
Counted(r) ==
    IF r.waiting THEN r
    ELSE [r EXCEPT !.limiter.tokensThisInterval = @ + 1]

\* Variant: the interval is never advanced.
advanceIntervalNever(l, t) == l

\* RateLimiter.removeTokens: advance the interval when it is over
advanceInterval(l, t) ==
    IF t < l.curIntervalStart \/ t - l.curIntervalStart >= WINDOW_SIZE_MS
    THEN [l EXCEPT !.curIntervalStart = t, !.tokensThisInterval = 0]
    ELSE l

\* RateLimiter.removeTokens(1) with fireImmediately: -1 when the interval's
\* count is used up, else the bucket's answer
RateLimiter_removeTokens(l, t) ==
    LET a == advanceInterval(l, t)
    IN  IF 1 > ATTEMPTS_PER_MINUTE - a.tokensThisInterval
        THEN [limiter |-> a, waiting |-> FALSE, waitMs |-> 0, remaining |-> -1]
        ELSE Counted(TokenBucket_removeTokens(a, t))

\* Variant: one limiter for all identifiers.
limiterForShared(id) ==
    IF DOMAIN limiters # {}
    THEN limiters[CHOOSE k \in DOMAIN limiters : TRUE]
    ELSE NewRateLimiter(now)

\* limiters.has(identifier) ? limiters.get(identifier) : new RateLimiter
limiterFor(id) ==
    IF id \in DOMAIN limiters THEN limiters[id] ELSE NewRateLimiter(now)

\* checkRateLimit: the 429 response when the limiter answers below 0
Allowed(remaining) == ~(remaining < 0)

(***************************************************************************)
(* Inputs.                                                                 *)
(***************************************************************************)
Secrets == {"", "k1"}                \* "" : JWT_SECRET is not set
AttackerKey == "k2"
\* JWT_EXPIRES_IN as a string of digits; <<>> : it is not set
Lifetimes == {<<>>, <<0>>, <<1>>, <<2>>}
Envs == [JWT_SECRET : Secrets, JWT_EXPIRES_IN : Lifetimes]

Subjects == {<<"u", 1>>, <<"u", 2>>}
Emails == {<<"ann", "x.io">>}
Names == {Undefined} \cup NonAscii

\* { sub, email, name: name || undefined }
Payload(sub, email, name) ==
    IF name = Undefined \/ name = ""
    THEN [sub |-> sub, email |-> email]
    ELSE [sub |-> sub, email |-> email, name |-> name]

ClaimsOf(token) == JSONparse(BufferDecode(token[2]))

Garbage == <<<<"#">>>>
NoneHeader == B64Url(JSONstringify([alg |-> "none", typ |-> "JWT"]))
HsHeader == B64Url(JSONstringify(JwtHeader))

Sub1 == <<<<"sub", <<"u", 1>>>>>>
Email1 == <<<<"email", <<"ann", "x.io">>>>>>
Exp(n) == <<<<"exp", n>>>>

\* claim sets anyone can write down: complete ones without exp, with exp 0,
\* with a past and with a future exp; ones lacking sub or email; no JSON
ForgedTexts ==
    { Sub1 \o Email1,
      Sub1 \o Email1 \o Exp(0),
      Sub1 \o Email1 \o Exp(StartSec),
      Sub1 \o Email1 \o Exp(StartSec + 2),
      Email1 \o Exp(StartSec + 2),
      <<<<"sub", <<>>>>>> \o Email1 \o Exp(StartSec + 2),
      Sub1 \o Exp(StartSec + 2),
      <<>>,
      Garbage }

SigChoices(h, c) == {EmptySig, Hmac("k1", h, c), Hmac(AttackerKey, h, c)}

SignedAnyWay(h, c) == { <<h, c, s>> : s \in SigChoices(h, c) }

GoodClaims == B64Url(Sub1 \o Email1)

\* tokens anyone can write down, with each of the signatures over them
StaticTokens ==
    UNION { SignedAnyWay(HsHeader, B64Url(c)) : c \in ForgedTexts }
      \cup { <<NoneHeader, GoodClaims, EmptySig>>,
              <<NoneHeader, GoodClaims, Hmac("k1", NoneHeader, GoodClaims)>> }
      \cup { <<HsHeader>>, <<HsHeader, GoodClaims>>,
              <<HsHeader, GoodClaims, EmptySig, EmptySig>> }

\* an issued token with its signature segment or its claims segment changed
Tampered(tok) ==
    { <<tok[1], tok[2], s>> :
        s \in (SigChoices(tok[1], tok[2]) \cup {i.token[3] : i \in issued})
                 \ {tok[3]} }
      \cup { <<tok[1], c, tok[3]>> :
                c \in {B64Url(JSONstringify(
                          [ClaimsOf(tok) EXCEPT !.exp = @ + 1]))} }

Presentable ==
    StaticTokens \cup {i.token : i \in issued}
                 \cup UNION {Tampered(i.token) : i \in issued}

(***************************************************************************)
(* The codec specification: the three functions applied to drawn inputs.   *)
(***************************************************************************)
rateVars == <<limiters, pending, hist, ticks>>
\* no browser takes part
NoBrowser == [at |-> "none"]

vars ==
    <<now, env, users, issued, limiters, pending, hist, ticks, last, browser>>

Identities == {"login_10.0.0.1", "login_10.0.0.2"}

InitRate ==
    /\ limiters = <<>>
    /\ pending = {}
    /\ hist = [id \in Identities |-> <<>>]
    /\ ticks = 0

InitCodec ==
    /\ now = StartSec * 1000
    /\ env \in Envs
    /\ users = {}
    /\ issued = {}
    /\ InitRate
    /\ last = [op |-> "start"]
    /\ browser = NoBrowser

TickCodec ==
    \E d \in {500, 1000} :
      /\ now + d <= MaxCodecSec * 1000
      /\ now' = now + d
      /\ UNCHANGED <<browser, env, users, issued, rateVars, last>>

CreateTokenCall ==
    \E sub \in Subjects, email \in Emails, name \in Names :
      LET payload == Payload(sub, email, name)
          tok == createToken(payload)
      IN  /\ Cardinality(issued) < MaxIssued
          /\ issued' = IF tok = Throws THEN issued
                       ELSE issued \cup {[token |-> tok, payload |-> payload]}
          /\ last' = [op |-> "createToken", arg |-> payload, at |-> now,
                      out |-> tok]
          /\ UNCHANGED <<browser, now, env, users, rateVars>>

VerifyTokenCall ==
    \E tok \in Presentable :
      /\ last' = [op |-> "verifyToken", token |-> tok, at |-> now,
                  out |-> verifyToken(tok)]
      /\ UNCHANGED <<browser, now, env, users, issued, rateVars>>

SimpleVerifyTokenCall ==
    \E tok \in Presentable :
      /\ last' = [op |-> "simpleVerifyToken", token |-> tok, at |-> now,
                  out |-> simpleVerifyToken(tok)]
      /\ UNCHANGED <<browser, now, env, users, issued, rateVars>>

NextCodec ==
    \/ TickCodec
    \/ CreateTokenCall
    \/ VerifyTokenCall
    \/ SimpleVerifyTokenCall

SpecCodec == InitCodec /\ [][NextCodec]_vars

(***************************************************************************)
(* The rate-limiter specifications: checkRateLimit called at drawn times.  *)
(* A call either completes at once or is suspended inside the limiter      *)
(* (wait(ms) in TokenBucket.removeTokens) and resumed when its timer has   *)
(* fired.                                                                  *)
(***************************************************************************)
RateSteps == {1000, 12000, 48000}
RateSteps2 == {1000, 60000}
IdA == "login_10.0.0.1"

RECURSIVE SumLen(_)
SumLen(ids) ==
    IF ids = {} THEN 0
    ELSE LET id == CHOOSE x \in ids : TRUE
         IN  Len(hist[id]) + SumLen(ids \ {id})

CallsMade == Cardinality(pending) + SumLen(Identities)

InitRateSpec ==
    /\ now = StartSec * 1000
    /\ env = [JWT_SECRET |-> "k1", JWT_EXPIRES_IN |-> <<>>]
    /\ users = {}
    /\ issued = {}
    /\ InitRate
    /\ last = [op |-> "start"]
    /\ browser = NoBrowser

TickRateBy(steps, max) ==
    \E d \in steps :
      /\ ticks < max
      /\ now' = now + d
      /\ ticks' = ticks + 1
      /\ UNCHANGED <<browser, env, users, issued, limiters, pending, hist, last>>

TickRate == TickRateBy(RateSteps, MaxTicks)
TickRate2 == TickRateBy(RateSteps2, MaxTicks2)

CheckRateLimitCall(id, maxCalls) ==
    LET r == RateLimiter_removeTokens(limiterFor(id), now)
    IN  /\ CallsMade < maxCalls
        /\ limiters' = (id :> r.limiter) @@ limiters
        /\ IF r.waiting
           THEN /\ pending' = pending \cup
                      {[n |-> CallsMade + 1, id |-> id, at |-> now,
                        wake |-> now + r.waitMs]}
                /\ hist' = hist
                /\ last' = [op |-> "checkRateLimit", id |-> id, at |-> now,
                            out |-> "pending"]
           ELSE /\ pending' = pending
                /\ hist' = [hist EXCEPT ![id] =
                              Append(@, [at |-> now, done |-> now,
                                         allowed |-> Allowed(r.remaining)])]
                /\ last' = [op |-> "checkRateLimit", id |-> id, at |-> now,
                            out |-> IF Allowed(r.remaining)
                                    THEN "allowed" ELSE "denied"]
        /\ UNCHANGED <<browser, now, env, users, issued, ticks>>

\* the timer of a suspended call has fired: the bucket is asked again
ResumeCall ==
    \E p \in pending :
      LET r == Counted(TokenBucket_removeTokens(limiters[p.id], now))
      IN  /\ now >= p.wake
          /\ limiters' = [limiters EXCEPT ![p.id] = r.limiter]
          /\ IF r.waiting
             THEN /\ pending' = (pending \ {p}) \cup
                        {[p EXCEPT !.wake = now + r.waitMs]}
                  /\ hist' = hist
             ELSE /\ pending' = pending \ {p}
                  /\ hist' = [hist EXCEPT ![p.id] =
                                Append(@, [at |-> p.at, done |-> now,
                                           allowed |-> Allowed(r.remaining)])]
          /\ last' = [op |-> "resume", id |-> p.id, at |-> now,
                      out |-> IF r.waiting THEN "pending" ELSE "allowed"]
          /\ UNCHANGED <<browser, now, env, users, issued, ticks>>

NextRate ==
    \/ TickRate
    \/ CheckRateLimitCall(IdA, MaxCalls)
    \/ ResumeCall

SpecRate == InitRateSpec /\ [][NextRate]_vars

\* Two identities, over a shorter run in which no call is ever suspended.
NextRate2 ==
    \/ TickRate2
    \/ \E id \in Identities : CheckRateLimitCall(id, MaxCalls2)

SpecRate2 == InitRateSpec /\ [][NextRate2]_vars

(***************************************************************************)
(* Concurrent calls for one identity.  RateLimiter.removeTokens runs       *)
(* without interruption up to its `await` on the bucket: the interval, the *)
(* interval's count and the bucket's own drip, test and subtraction.  The  *)
(* count is increased after the `await`, in a continuation that runs       *)
(* before any timer and before the clock has moved on, but after the       *)
(* calls that were started meanwhile.                                      *)
(***************************************************************************)
MaxRaceTicks == 3
MaxRaceCalls == 7

\* RateLimiter.removeTokens(1) up to `await this.tokenBucket.removeTokens`
RateLimiter_beforeAwait(l, t) ==
    LET a == advanceInterval(l, t)
    IN  IF 1 > ATTEMPTS_PER_MINUTE - a.tokensThisInterval
        THEN [limiter |-> a, waiting |-> FALSE, waitMs |-> 0, remaining |-> -1]
        ELSE TokenBucket_removeTokens(a, t)

\* this.tokensThisInterval += count
RateLimiter_afterAwait(l) == [l EXCEPT !.tokensThisInterval = @ + 1]

Awaiting == {p \in pending : p.stage = "await"}

BeginCall ==
    LET id == IdA
        r == RateLimiter_beforeAwait(limiterFor(id), now)
    IN  /\ CallsMade < MaxRaceCalls
        /\ limiters' = (id :> r.limiter) @@ limiters
        /\ IF r.waiting
           THEN /\ pending' = pending \cup
                      {[n |-> CallsMade + 1, id |-> id, at |-> now,
                        wake |-> now + r.waitMs, stage |-> "timer"]}
                /\ hist' = hist
           ELSE IF Allowed(r.remaining)
           THEN /\ pending' = pending \cup
                      {[n |-> CallsMade + 1, id |-> id, at |-> now,
                        wake |-> now, stage |-> "await"]}
                /\ hist' = hist
           ELSE /\ pending' = pending
                /\ hist' = [hist EXCEPT ![id] =
                              Append(@, [at |-> now, done |-> now,
                                         allowed |-> FALSE])]
        /\ last' = [op |-> "checkRateLimit", id |-> id, at |-> now,
                    out |-> IF r.waiting THEN "pending"
                            ELSE IF Allowed(r.remaining) THEN "awaiting"
                            ELSE "denied"]
        /\ UNCHANGED <<browser, now, env, users, issued, ticks>>

\* the continuation after the `await`: the call is counted and returns
FinishCall ==
    \E p \in Awaiting :
      /\ limiters' = [limiters EXCEPT ![p.id] = RateLimiter_afterAwait(@)]
      /\ pending' = pending \ {p}
      /\ hist' = [hist EXCEPT ![p.id] =
                    Append(@, [at |-> p.at, done |-> now, allowed |-> TRUE])]
      /\ last' = [op |-> "return", id |-> p.id, at |-> now, out |-> "allowed"]
      /\ UNCHANGED <<browser, now, env, users, issued, ticks>>

\* the timer of a suspended call fires: the bucket is asked again
TimerFires ==
    \E p \in pending :
      LET r == TokenBucket_removeTokens(limiters[p.id], now)
      IN  /\ p.stage = "timer"
          /\ Awaiting = {}
          /\ now >= p.wake
          /\ limiters' = [limiters EXCEPT ![p.id] = r.limiter]
          /\ pending' = (pending \ {p}) \cup
                {IF r.waiting THEN [p EXCEPT !.wake = now + r.waitMs]
                 ELSE [p EXCEPT !.stage = "await"]}
          /\ last' = [op |-> "resume", id |-> p.id, at |-> now,
                      out |-> IF r.waiting THEN "pending" ELSE "awaiting"]
          /\ UNCHANGED <<browser, now, env, users, issued, hist, ticks>>

\* the clock moves by a second or by most of a window, once every
\* continuation has run
TickRace == Awaiting = {} /\ TickRateBy({1000, 59000}, MaxRaceTicks)

NextRace ==
    \/ TickRace
    \/ BeginCall
    \/ FinishCall
    \/ TimerFires

SpecRace == InitRateSpec /\ [][NextRace]_vars

(***************************************************************************)
(* The system: the route guard (middleware.ts) and the /api/auth           *)
(* endpoints.  A request is [path, cookies, authorization]; a path is the  *)
(* sequence of its segments after the leading '/' ("/" is <<"">>), the     *)
(* cookies are a function from cookie names to values, the Authorization   *)
(* header is <<>> when absent and <<scheme, rest>> otherwise.  A handler   *)
(* runs in one step.  The string "" and null are both NoToken.             *)
(***************************************************************************)
MaxSysSec == 7           \* the system specification stops the clock here
MaxUsers == 1            \* user records created in one behaviour

NoToken == <<>>
TOKEN_NAME == "auth_token"

\* request.cookies.get(TOKEN_NAME)?.value || null
getAuthCookie(request) ==
    IF TOKEN_NAME \in DOMAIN request.cookies
    THEN request.cookies[TOKEN_NAME]
    ELSE NoToken

\* the marker cookie set next to the session cookie at login
AUTH_STATE == "auth_state"
Authenticated == <<"authenticated">>

\* Variant: the marker cookie counts as a session.
isAuthenticatedByMarker(request) ==
    LET token == getAuthCookie(request)
    IN  \/ token # NoToken /\ simpleVerifyToken(token) # Null
        \/ /\ AUTH_STATE \in DOMAIN request.cookies
           /\ request.cookies[AUTH_STATE] = Authenticated

\* token ? !!simpleVerifyToken(token) : false
isAuthenticated(request) ==
    LET token == getAuthCookie(request)
    IN  IF token # NoToken THEN simpleVerifyToken(token) # Null ELSE FALSE

\* const COOKIE_MAX_AGE = parseInt(process.env.JWT_EXPIRES_IN || '86400')
COOKIE_MAX_AGE == parseInt(OrDefault(env.JWT_EXPIRES_IN, <<8, 6, 4, 0, 0>>))

COOKIE_OPTIONS ==
    [httpOnly |-> TRUE, secure |-> env.NODE_ENV = "production",
     maxAge |-> COOKIE_MAX_AGE, path |-> "/", sameSite |-> "lax"]

\* Variant: the response is returned as it came.
setAuthCookieDropped(token, response) == response

\* response.cookies.set({ name: TOKEN_NAME, value: token, ...COOKIE_OPTIONS })
setAuthCookie(token, response) ==
    [response EXCEPT !.cookies =
        (TOKEN_NAME :> ([value |-> token] @@ COOKIE_OPTIONS)) @@ @]

\* NextResponse.json(body, { status }), NextResponse.next(), .redirect(url)
NextResponse_json(body, status) ==
    [status |-> status, body |-> body, cookies |-> <<>>]
NextResponse_next == [kind |-> "next"]
NextResponse_redirect(path) == [kind |-> "redirect", to |-> path]

\* pathname.startsWith(`${route}/`)
Under(pathname, route) ==
    /\ Len(pathname) > Len(route)
    /\ SubSeq(pathname, 1, Len(route)) = route

\* Variant: the sign-in page is itself a protected route.
protectedRoutesWithSignin == {<<"dashboard">>, <<"signin">>}

protectedRoutes == {<<"dashboard">>}
authRoutes == {<<"">>, <<"signin">>, <<"signup">>}

\* Variant: a route covers its own path only, not the paths below it.
middlewareExact(request) ==
    LET pathname == request.path
        userIsAuthenticated == isAuthenticated(request)
    IN  IF Under(pathname, <<"api">>) THEN NextResponse_next
        ELSE IF pathname \in authRoutes /\ userIsAuthenticated
             THEN NextResponse_redirect(<<"dashboard">>)
        ELSE IF pathname \in protectedRoutes /\ ~userIsAuthenticated
             THEN NextResponse_redirect(<<"signin">>)
        ELSE NextResponse_next

middleware(request) ==
    LET pathname == request.path
        userIsAuthenticated == isAuthenticated(request)
        isProtectedRoute ==
            \E route \in protectedRoutes :
                pathname = route \/ Under(pathname, route)
        isAuthRoute ==
            \E route \in authRoutes :
                pathname = route \/ Under(pathname, route)
    IN  IF Under(pathname, <<"api">>) THEN NextResponse_next
        ELSE IF isAuthRoute /\ userIsAuthenticated
             THEN NextResponse_redirect(<<"dashboard">>)
        ELSE IF isProtectedRoute /\ ~userIsAuthenticated
             THEN NextResponse_redirect(<<"signin">>)
        ELSE NextResponse_next

\* config.matcher: '/((?!api|_next/static|_next/image|favicon.ico).*)'
\* The segments of the model that begin with "api", with "favicon.ico" (the
\* dot of the pattern matches any character) and, after "_next", with
\* "static" or "image".
BeginsWithApi == {"api", "apiary"}
BeginsWithFavicon == {"favicon.ico", "faviconxico"}
BeginsWithStaticOrImage == {"static", "image", "images"}

matcher(pathname) ==
    ~ \/ pathname[1] \in BeginsWithApi
      \/ pathname[1] \in BeginsWithFavicon
      \/ /\ Len(pathname) > 1
         /\ pathname[1] = "_next"
         /\ pathname[2] \in BeginsWithStaticOrImage

\* Variant: a guard that runs on every path and lets an unauthenticated
\* request through to the public-only routes alone.
RouteGuardDenyByDefault(request) ==
    LET isAuthRoute ==
            \E route \in authRoutes :
                request.path = route \/ Under(request.path, route)
    IN  IF isAuthRoute
        THEN IF isAuthenticated(request)
             THEN NextResponse_redirect(<<"dashboard">>)
             ELSE NextResponse_next
        ELSE IF isAuthenticated(request)
             THEN NextResponse_next
             ELSE NextResponse_redirect(<<"signin">>)

\* What a page request meets: the middleware on the paths the matcher
\* selects, nothing on the others.
RouteGuard(request) ==
    IF matcher(request.path) THEN middleware(request) ELSE NextResponse_next

\* Variant: the Authorization header is looked at first.
RequestTokenHeaderFirst(request) ==
    LET token == getAuthCookie(request)
        authHeader == request.authorization
    IN  IF authHeader # <<>> /\ authHeader[1] = "Bearer "
           /\ authHeader[2] # NoToken
        THEN authHeader[2]
        ELSE token

\* The token of a request to /api/auth/check or /api/auth/me: the cookie,
\* else the rest of an Authorization header that starts with 'Bearer '.
RequestToken(request) ==
    LET token == getAuthCookie(request)
        authHeader == request.authorization
    IN  IF token # NoToken THEN token
        ELSE IF authHeader # <<>> /\ authHeader[1] = "Bearer "
             THEN authHeader[2]
        ELSE NoToken

\* Variant: the status check trusts the quick verification.
CheckGETQuick(request) ==
    LET token == RequestToken(request)
        payload == simpleVerifyToken(token)
    IN  IF token = NoToken \/ payload = Null
        THEN NextResponse_json([authenticated |-> FALSE], 401)
        ELSE NextResponse_json(
                 [authenticated |-> TRUE, userId |-> payload.sub,
                  email |-> Get(payload, "email")], 200)

\* GET /api/auth/check
CheckGET(request) ==
    LET token == RequestToken(request)
        payload == verifyToken(token)
    IN  IF token = NoToken
        THEN NextResponse_json([authenticated |-> FALSE], 401)
        ELSE IF payload = Throws
        THEN NextResponse_json(
                 [authenticated |-> FALSE,
                  error |-> "Authentication check failed"], 500)
        ELSE IF payload = Null \/ ~Truthy(payload, "sub")
        THEN NextResponse_json([authenticated |-> FALSE], 401)
        ELSE NextResponse_json(
                 [authenticated |-> TRUE, userId |-> payload.sub,
                  email |-> Get(payload, "email")], 200)

\* prisma.user.findUnique({ where }) on a given content of the user table
findUniqueIn(table, field, value) ==
    IF \E u \in table : u[field] = value
    THEN CHOOSE u \in table : u[field] = value
    ELSE Null

findUnique(field, value) == findUniqueIn(users, field, value)

\* GET /api/auth/me ; db is "down" when the query fails
MeGETIn(table, request, db) ==
    LET token == RequestToken(request)
        payload == verifyToken(token)
        user == findUniqueIn(table, "id", payload.sub)
    IN  IF token = NoToken
        THEN NextResponse_json([error |-> "Unauthorized"], 401)
        ELSE IF payload = Throws
        THEN NextResponse_json([error |-> "Failed to get current user"], 500)
        ELSE IF payload = Null \/ ~Truthy(payload, "sub")
        THEN NextResponse_json([error |-> "Invalid token"], 401)
        ELSE IF db = "down"
        THEN NextResponse_json([error |-> "Failed to get current user"], 500)
        ELSE IF user = Null
        THEN NextResponse_json([error |-> "User not found"], 404)
        ELSE NextResponse_json(
                 [user |-> [id |-> user.id, email |-> user.email,
                            name |-> user.name,
                            createdAt |-> user.createdAt]], 200)

MeGET(request, db) == MeGETIn(users, request, db)

\* bcrypt: a hash matches exactly the password it was made from
hashPassword(password) == [bcrypt |-> password]
comparePassword(password, hashedPassword) ==
    hashedPassword = [bcrypt |-> password]

\* signupSchema: z.string().email(), z.string().min(8), name optional.
\* An e-mail address is <<local part, domain>>.
Malformed == [malformed |-> TRUE]
signupSchema(body) ==
    /\ body # Malformed
    /\ Len(body.email) = 2
    /\ Len(body.password) >= 8

UserId(n) == <<"u", n>>

\* POST /api/auth/signup : the response and the user table afterwards
SignupPOSTIn(table, body, db) ==
    LET user == [id |-> UserId(Cardinality(table) + 1),
                 email |-> body.email,
                 hashedPassword |-> hashPassword(body.password),
                 name |-> body.name,
                 createdAt |-> now]
        token == createToken(Payload(user.id, user.email, user.name))
        failed == NextResponse_json([error |-> "Failed to create user"], 500)
    IN  IF body = Malformed
        THEN [response |-> failed, users |-> table]
        ELSE IF ~signupSchema(body)
        THEN [response |-> NextResponse_json([error |-> "Invalid input"], 400),
              users |-> table]
        ELSE IF db = "down"
        THEN [response |-> failed, users |-> table]
        ELSE IF findUniqueIn(table, "email", body.email) # Null
        THEN [response |->
                  NextResponse_json(
                      [error |-> "User with this email already exists"], 409),
              users |-> table]
        ELSE IF token = Throws
        THEN [response |-> failed, users |-> table \cup {user}]
        ELSE [response |->
                  setAuthCookie(token,
                      NextResponse_json(
                          [success |-> TRUE,
                           user |-> [id |-> user.id, email |-> user.email,
                                     name |-> user.name]], 201)),
              users |-> table \cup {user}]

SignupPOST(body, db) == SignupPOSTIn(users, body, db)

\* response.cookies.delete(name): the cookie is sent back empty and expired
DeletedCookie == [value |-> <<>>, maxAge |-> 0, path |-> "/"]

deleteAuthCookie(response) ==
    [response EXCEPT !.cookies = (TOKEN_NAME :> DeletedCookie) @@ @]

\* Variant: the marker cookie is left alone.
LogoutPOST_TokenOnly ==
    deleteAuthCookie(
        NextResponse_json(
            [success |-> TRUE, message |-> "Logged out successfully"], 200))

\* POST /api/auth/logout
LogoutPOST ==
    LET response ==
            deleteAuthCookie(
                NextResponse_json(
                    [success |-> TRUE,
                     message |-> "Logged out successfully"], 200))
    IN  [response EXCEPT !.cookies = (AUTH_STATE :> DeletedCookie) @@ @]

\* Inputs of the system specification.
SysEnvs ==
    [JWT_SECRET : Secrets, JWT_EXPIRES_IN : {<<2>>},
     NODE_ENV : {"production", "development"}]

Paths ==
    { <<"">>, <<"dashboard">>, <<"dashboard", "settings">>, <<"signin">>,
      <<"signup">>, <<"signin", "help">>, <<"about">>,
      <<"api", "auth", "me">>, <<"api", "dashboard">>, <<"apiary">>,
      <<"_next", "static">> }

SignupBodies ==
    [email : Emails \cup {<<"bob", "x.io">>, <<"ann">>},
     password : {"secret", "longsecret"},
     name : Names] \cup {Malformed}

\* tokens a client can hold: the issued ones, and whatever can be written
\* down without the signing secret
Forgeable ==
    { <<HsHeader, GoodClaims, EmptySig>>,
      <<HsHeader, B64Url(Sub1 \o Email1 \o Exp(StartSec + 2)),
        Hmac(AttackerKey, HsHeader,
             B64Url(Sub1 \o Email1 \o Exp(StartSec + 2)))>>,
      <<HsHeader, B64Url(Sub1 \o Email1 \o Exp(StartSec)), EmptySig>>,
      <<HsHeader, B64Url(Sub1 \o Exp(StartSec + 2)), EmptySig>>,
      <<NoneHeader, GoodClaims, EmptySig>>,
      <<HsHeader, GoodClaims>> }

SysTokens ==
    Forgeable \cup {i.token : i \in issued}
              \cup UNION {Tampered(i.token) : i \in issued}

ForgedCookie == (TOKEN_NAME :> <<HsHeader, GoodClaims, EmptySig>>)

\* the marker cookie alone, and next to a forged session cookie
MarkerCookies ==
    { (AUTH_STATE :> Authenticated),
      (AUTH_STATE :> Authenticated) @@ ForgedCookie }

Cookies ==
    {<<>>} \cup {(TOKEN_NAME :> t) : t \in SysTokens} \cup MarkerCookies

AuthHeaders ==
    {<<"Bearer ", NoToken>>,
     <<"Basic ", <<HsHeader, GoodClaims, EmptySig>>>>}
      \cup {<<"Bearer ", t>> :
              t \in {i.token : i \in issued}
                      \cup {<<HsHeader, GoodClaims, EmptySig>>}}

\* requests with a cookie only, and requests with an Authorization header
\* and no cookie, an empty one, a forged one or the cookie of an issued token
ApiRequests ==
    [path : {<<"api", "auth">>}, cookies : Cookies, authorization : {<<>>}]
      \cup [path : {<<"api", "auth">>},
            cookies : {<<>>, ForgedCookie, (TOKEN_NAME :> NoToken)}
                        \cup {(TOKEN_NAME :> i.token) : i \in issued},
            authorization : AuthHeaders]

\* page requests: no cookie, a forged cookie that has expired, one that has
\* not, or the cookie of an issued token
PageRequests ==
    [path : Paths,
     cookies : {<<>>, ForgedCookie,
                (TOKEN_NAME :>
                   <<HsHeader, B64Url(Sub1 \o Email1 \o Exp(StartSec)),
                     EmptySig>>)}
                 \cup {(TOKEN_NAME :> i.token) : i \in issued}
                 \cup MarkerCookies,
     authorization : {<<>>}]

\* the cookies of a browser that asks to be logged out: none, forged ones,
\* the marker, or the cookies of a session
LogoutCookies ==
    {<<>>, ForgedCookie} \cup MarkerCookies
      \cup {(TOKEN_NAME :> i.token) : i \in issued}
      \cup {(TOKEN_NAME :> i.token) @@ (AUTH_STATE :> Authenticated) :
              i \in issued}

LogoutRequests ==
    [path : {<<"api", "auth", "logout">>}, cookies : LogoutCookies,
     authorization : {<<>>}]

\* fetch(..., { credentials: 'include' }): the browser applies the cookies
\* of the response to its own: one sent back expired is dropped, any other
\* is stored
BrowserApply(jar, response) ==
    LET dropped == {n \in DOMAIN response.cookies :
                      response.cookies[n].maxAge = 0}
        stored == (DOMAIN response.cookies) \ dropped
    IN  [n \in ((DOMAIN jar) \ dropped) \cup stored |->
            IF n \in stored THEN response.cookies[n].value ELSE jar[n]]

Init ==
    /\ now = StartSec * 1000
    /\ env \in SysEnvs
    /\ users = {}
    /\ issued = {}
    /\ InitRate
    /\ last = [op |-> "start"]
    /\ browser = NoBrowser

Tick ==
    /\ now + 1000 <= MaxSysSec * 1000
    /\ now' = now + 1000
    /\ UNCHANGED <<browser, env, users, issued, rateVars, last>>

\* a page request: the route guard runs on the paths the matcher selects
Guard ==
    \E request \in PageRequests :
      /\ last' = [op |-> "guard", request |-> request, at |-> now,
                  out |-> RouteGuard(request)]
      /\ UNCHANGED <<browser, now, env, users, issued, rateVars>>

\* db is the state of the user table while the request is served; the
\* handler of check has no access to it
Check ==
    \E request \in ApiRequests, db \in {"up", "down"} :
      /\ last' = [op |-> "check", request |-> request, db |-> db,
                  at |-> now, out |-> CheckGET(request)]
      /\ UNCHANGED <<browser, now, env, users, issued, rateVars>>

Me ==
    \E request \in ApiRequests, db \in {"up", "down"} :
      /\ last' = [op |-> "me", request |-> request, db |-> db, at |-> now,
                  out |-> MeGET(request, db)]
      /\ UNCHANGED <<browser, now, env, users, issued, rateVars>>

\* Variant: a signup passes through the limiter of its address first.
SignupFromLimited(bodies, dbs) ==
    \E body \in bodies, db \in dbs :
      LET id == IdA
          l == RateLimiter_removeTokens(limiterFor(id), now)
          r == IF Allowed(l.remaining) THEN SignupPOST(body, db)
               ELSE [response |-> NextResponse_json(
                                      [error |-> "Too many attempts"], 429),
                     users |-> users]
      IN  /\ r.users # users => Cardinality(users) < MaxUsers
          /\ users' = r.users
          /\ limiters' = (id :> l.limiter) @@ limiters
          /\ issued' =
               IF TOKEN_NAME \in DOMAIN r.response.cookies
               THEN issued \cup
                      {[token |-> r.response.cookies[TOKEN_NAME].value,
                        payload |-> Payload(r.response.body.user.id,
                                            r.response.body.user.email,
                                            r.response.body.user.name)]}
               ELSE issued
          /\ last' = [op |-> "signup", body |-> body, db |-> db, at |-> now,
                      out |-> r.response]
          /\ UNCHANGED <<browser, now, env, pending, hist, ticks>>

SignupFrom(bodies, dbs) ==
    \E body \in bodies, db \in dbs :
      LET r == SignupPOST(body, db)
      IN  /\ r.users # users => Cardinality(users) < MaxUsers
          /\ users' = r.users
          /\ issued' =
               IF TOKEN_NAME \in DOMAIN r.response.cookies
               THEN issued \cup
                      {[token |-> r.response.cookies[TOKEN_NAME].value,
                        payload |-> Payload(r.response.body.user.id,
                                            r.response.body.user.email,
                                            r.response.body.user.name)]}
               ELSE issued
          /\ last' = [op |-> "signup", body |-> body, db |-> db, at |-> now,
                      out |-> r.response]
          /\ UNCHANGED <<browser, now, env, rateVars>>

Signup == SignupFrom(SignupBodies, {"up", "down"})

\* POST /api/auth/logout: the handler does not read the request
Logout ==
    \E request \in LogoutRequests :
      /\ last' = [op |-> "logout", request |-> request, at |-> now,
                  out |-> LogoutPOST]
      /\ UNCHANGED <<browser, now, env, users, issued, rateVars>>

Next ==
    \/ Tick
    \/ Guard
    \/ Check
    \/ Me
    \/ Signup
    \/ Logout

Spec == Init /\ [][Next]_vars

(***************************************************************************)
(* POST /api/auth/login and POST /api/auth/logout.  A login first awaits   *)
(* checkRateLimit, which can suspend it inside the limiter, and goes on    *)
(* to the body and the credentials when the limiter has answered.          *)
(***************************************************************************)
MaxLogins == 7           \* login requests in one behaviour
MaxLoginTicks == 1       \* clock steps of the login specification
MaxWaitTicks == 3        \* clock steps when logins can be suspended

\* index.ts getClientIp: the first address of x-forwarded-for, else a
\* placeholder.  The header is the sequence of its addresses.
\* String.prototype.trim on the entries of the model: an entry can follow
\* its comma after a blank
trim(entry) == IF entry = " 10.0.0.1" THEN "10.0.0.1" ELSE entry

\* Variant: the address nearest to the server, the last of the list.
getClientIpLast(request) ==
    IF request.forwarded # <<>>
    THEN trim(request.forwarded[Len(request.forwarded)])
    ELSE "unknown-ip"

getClientIp(request) ==
    IF request.forwarded # <<>> THEN trim(request.forwarded[1])
    ELSE "unknown-ip"

\* `login_${clientIp}`
LoginIdentifier(ip) ==
    CASE ip = "10.0.0.1" -> "login_10.0.0.1"
      [] ip = "10.0.0.2" -> "login_10.0.0.2"
      [] ip = "unknown-ip" -> "login_unknown-ip"

\* loginSchema: z.string().email(), z.string().min(1)
loginSchema(body) ==
    /\ body # Malformed
    /\ Len(body.email) = 2
    /\ Len(body.password) >= 1

\* the 429 response of checkRateLimit
TooManyAttempts ==
    NextResponse_json(
        [error |-> "Too many login attempts. Please try again later."], 429)

\* response.cookies.set({ name: 'auth_state', value: 'authenticated', ... })
setAuthStateCookie(response) ==
    [response EXCEPT !.cookies =
        (AUTH_STATE :>
           [value |-> Authenticated,
            maxAge |-> parseInt(OrDefault(env.JWT_EXPIRES_IN,
                                          <<8, 6, 4, 0, 0>>)),
            path |-> "/", sameSite |-> "lax", httpOnly |-> FALSE,
            secure |-> env.NODE_ENV = "production"]) @@ @]

InvalidCredentials ==
    NextResponse_json([error |-> "Invalid email or password"], 401)

\* Variant: an unknown e-mail gets an answer of its own.
LoginAfterRateLimit_UserNotFound(body, db) ==
    LET user == findUnique("email", body.email)
        token == createToken(Payload(user.id, user.email, user.name))
        failed == NextResponse_json([error |-> "Authentication failed"], 500)
    IN  IF body = Malformed
        THEN [response |-> failed, looked |-> FALSE, compared |-> FALSE]
        ELSE IF ~loginSchema(body)
        THEN [response |-> NextResponse_json([error |-> "Invalid input"], 400),
              looked |-> FALSE, compared |-> FALSE]
        ELSE IF db = "down"
        THEN [response |-> failed, looked |-> TRUE, compared |-> FALSE]
        ELSE IF user = Null
        THEN [response |-> NextResponse_json([error |-> "User not found"], 404),
              looked |-> TRUE, compared |-> FALSE]
        ELSE IF ~comparePassword(body.password, user.hashedPassword)
        THEN [response |-> InvalidCredentials,
              looked |-> TRUE, compared |-> TRUE]
        ELSE IF token = Throws
        THEN [response |-> failed, looked |-> TRUE, compared |-> TRUE]
        ELSE [response |->
                  setAuthStateCookie(
                      setAuthCookie(token,
                          NextResponse_json(
                              [success |-> TRUE,
                               user |-> [id |-> user.id, email |-> user.email,
                                         name |-> user.name],
                               isAuthenticated |-> TRUE], 200))),
              looked |-> TRUE, compared |-> TRUE]

\* POST /api/auth/login once checkRateLimit has let the request through:
\* the response, and whether the user table was read and a password compared
LoginAfterRateLimitIn(table, body, db) ==
    LET user == findUniqueIn(table, "email", body.email)
        token == createToken(Payload(user.id, user.email, user.name))
        failed == NextResponse_json([error |-> "Authentication failed"], 500)
    IN  IF body = Malformed
        THEN [response |-> failed, looked |-> FALSE, compared |-> FALSE]
        ELSE IF ~loginSchema(body)
        THEN [response |-> NextResponse_json([error |-> "Invalid input"], 400),
              looked |-> FALSE, compared |-> FALSE]
        ELSE IF db = "down"
        THEN [response |-> failed, looked |-> TRUE, compared |-> FALSE]
        ELSE IF user = Null
        THEN [response |-> InvalidCredentials,
              looked |-> TRUE, compared |-> FALSE]
        ELSE IF ~comparePassword(body.password, user.hashedPassword)
        THEN [response |-> InvalidCredentials,
              looked |-> TRUE, compared |-> TRUE]
        ELSE IF token = Throws
        THEN [response |-> failed, looked |-> TRUE, compared |-> TRUE]
        ELSE [response |->
                  setAuthStateCookie(
                      setAuthCookie(token,
                          NextResponse_json(
                              [success |-> TRUE,
                               user |-> [id |-> user.id, email |-> user.email,
                                         name |-> user.name],
                               isAuthenticated |-> TRUE], 200))),
              looked |-> TRUE, compared |-> TRUE]

LoginAfterRateLimit(body, db) == LoginAfterRateLimitIn(users, body, db)

\* Variant: the credentials are checked before the limiter's answer is
\* looked at.
LoginAnswerCredentialsFirst(remaining, body, db) ==
    LET r == LoginAfterRateLimit(body, db)
    IN  IF r.response.status = 200 /\ ~Allowed(remaining)
        THEN [response |-> TooManyAttempts, looked |-> TRUE, compared |-> TRUE]
        ELSE r

\* the rest of the handler after `await checkRateLimit(...)`
LoginAnswer(remaining, body, db) ==
    IF ~Allowed(remaining)
    THEN [response |-> TooManyAttempts, looked |-> FALSE, compared |-> FALSE]
    ELSE LoginAfterRateLimit(body, db)

\* Inputs of the login specification: the user of an earlier signup, her
\* password, a wrong one, an unknown e-mail, an empty password, no JSON.
Ann ==
    [id |-> UserId(1), email |-> <<"ann", "x.io">>,
     hashedPassword |-> hashPassword("longsecret"), name |-> Undefined,
     createdAt |-> (StartSec - 1) * 1000]

Ann_Login == [email |-> <<"ann", "x.io">>, password |-> "longsecret"]

LoginBodies ==
    [email : {<<"ann", "x.io">>, <<"bob", "x.io">>},
     password : {"longsecret", "wrongsecret"}]
      \cup {[email |-> <<"ann", "x.io">>, password |-> ""], Malformed}

\* the user table answers every request, or fails on one with her password
LoginInputs ==
    (LoginBodies \X {"up"}) \cup {<<Ann_Login, "down">>}

LoginEnvs == {e \in SysEnvs : e.NODE_ENV = "production"}

Forwarded == {<<>>, <<"10.0.0.1", "10.9.9.9">>}

LoginIdentities == Identities \cup {"login_unknown-ip"}

LoginsMade == Cardinality(pending) + SumLen(LoginIdentities)

InitLogin ==
    /\ now = StartSec * 1000
    /\ env \in LoginEnvs
    /\ users = {Ann}
    /\ issued = {}
    /\ limiters = <<>>
    /\ pending = {}
    /\ hist = [id \in LoginIdentities |-> <<>>]
    /\ ticks = 0
    /\ last = [op |-> "start"]
    /\ browser = NoBrowser

TickLogin == TickRateBy({1000, 60000}, MaxLoginTicks)
TickLoginWait == TickRateBy({1000, 59000}, MaxWaitTicks)

\* the session a login response carries, if any
SessionsOf(response) ==
    IF TOKEN_NAME \in DOMAIN response.cookies
    THEN {[token |-> response.cookies[TOKEN_NAME].value,
           payload |-> Payload(response.body.user.id,
                               response.body.user.email,
                               response.body.user.name)]}
    ELSE {}

LoginFrom(inputs, headers) ==
    \E input \in inputs, forwarded \in headers :
      LET body == input[1]
          db == input[2]
          id == LoginIdentifier(getClientIp([forwarded |-> forwarded]))
          r == RateLimiter_removeTokens(limiterFor(id), now)
          a == LoginAnswer(r.remaining, body, db)
      IN  /\ LoginsMade < MaxLogins
          /\ limiters' = (id :> r.limiter) @@ limiters
          /\ IF r.waiting
             THEN /\ pending' = pending \cup
                        {[n |-> LoginsMade + 1, id |-> id, at |-> now,
                          wake |-> now + r.waitMs, body |-> body,
                          db |-> db]}
                  /\ hist' = hist
                  /\ issued' = issued
                  /\ last' = [op |-> "login suspended", id |-> id,
                              forwarded |-> forwarded,
                              body |-> body, db |-> db, at |-> now]
             ELSE /\ pending' = pending
                  /\ hist' = [hist EXCEPT ![id] =
                                Append(@, [at |-> now, done |-> now,
                                           allowed |-> Allowed(r.remaining)])]
                  /\ issued' = issued \cup SessionsOf(a.response)
                  /\ last' = [op |-> "login", id |-> id, body |-> body,
                              forwarded |-> forwarded,
                              db |-> db, at |-> now, done |-> now,
                              out |-> a.response, looked |-> a.looked,
                              compared |-> a.compared]
          /\ UNCHANGED <<browser, now, env, users, ticks>>

\* the limiter's timer of a suspended login has fired
ResumeLogin ==
    \E p \in pending :
      LET r == Counted(TokenBucket_removeTokens(limiters[p.id], now))
          a == LoginAnswer(r.remaining, p.body, p.db)
      IN  /\ now >= p.wake
          /\ limiters' = [limiters EXCEPT ![p.id] = r.limiter]
          /\ IF r.waiting
             THEN /\ pending' = (pending \ {p}) \cup
                        {[p EXCEPT !.wake = now + r.waitMs]}
                  /\ hist' = hist
                  /\ issued' = issued
                  /\ last' = [op |-> "login suspended", id |-> p.id,
                              body |-> p.body, db |-> p.db, at |-> p.at]
             ELSE /\ pending' = pending \ {p}
                  /\ hist' = [hist EXCEPT ![p.id] =
                                Append(@, [at |-> p.at, done |-> now,
                                           allowed |-> Allowed(r.remaining)])]
                  /\ issued' = issued \cup SessionsOf(a.response)
                  /\ last' = [op |-> "login", id |-> p.id, body |-> p.body,
                              db |-> p.db, at |-> p.at, done |-> now,
                              out |-> a.response, looked |-> a.looked,
                              compared |-> a.compared]
          /\ UNCHANGED <<browser, now, env, users, ticks>>

\* Logins from two addresses, over a run in which none is suspended.
Login == LoginFrom(LoginInputs, Forwarded)

NextLogin ==
    \/ TickLogin
    \/ Login

SpecLogin == InitLogin /\ [][NextLogin]_vars

\* Logins from one address with a right password, a wrong one and an unknown
\* e-mail, over a longer run in which a login can be suspended.
WaitInputs ==
    { <<[email |-> e, password |-> pw], "up">> :
        e \in {<<"ann", "x.io">>, <<"bob", "x.io">>},
        pw \in {"longsecret", "wrongsecret"} }

LoginWait == LoginFrom(WaitInputs, {<<"10.0.0.1", "10.9.9.9">>})

NextLoginWait ==
    \/ TickLoginWait
    \/ LoginWait
    \/ ResumeLogin

SpecLoginWait == InitLogin /\ [][NextLoginWait]_vars

\* Sessions: one user signs up, logs in with the right or a wrong password
\* and logs out, in any order, while the clock runs past the lifetime of
\* the tokens.
MaxSessionTicks == 3

SessionSignups ==
    {[email |-> Ann.email, password |-> "longsecret", name |-> Undefined]}

SessionLogins ==
    { <<Ann_Login, "up">>,
      <<[email |-> Ann.email, password |-> "wrongsecret"], "up">> }

InitSession ==
    /\ now = StartSec * 1000
    /\ env \in LoginEnvs
    /\ users = {}
    /\ issued = {}
    /\ limiters = <<>>
    /\ pending = {}
    /\ hist = [id \in LoginIdentities |-> <<>>]
    /\ ticks = 0
    /\ last = [op |-> "start"]
    /\ browser = NoBrowser

TickSession == TickRateBy({1000}, MaxSessionTicks)

SessionSignup == SignupFrom(SessionSignups, {"up"})

SessionLogin == LoginFrom(SessionLogins, {<<"10.0.0.1", "10.9.9.9">>})

NextSession ==
    \/ TickSession
    \/ SessionSignup
    \/ SessionLogin
    \/ Logout

SpecSession == InitSession /\ [][NextSession]_vars

(***************************************************************************)
(* Properties of the token codec and the constrained verifier              *)
(* (specification SpecCodec).                                              *)
(***************************************************************************)
Rejected(out) == out \in {Null, Throws}
WellFormed(token) == Len(token) = 3 /\ IsJson(BufferDecode(token[2]))
LacksIdentity(token) ==
    ~Truthy(ClaimsOf(token), "sub") \/ ~Truthy(ClaimsOf(token), "email")
IssuedToken(token) == \E i \in issued : i.token = token

\* C1: a token produced by createToken is accepted by verifyToken while
\* now < expiresAt (same secret), and the returned claims carry the subject,
\* the email and the name createToken was given.
C1_RoundTrip ==
    \A i \in issued :
      (/\ last.op = "verifyToken"
       /\ last.token = i.token
       /\ last.at < ClaimsOf(i.token).exp * 1000)
      => /\ ~Rejected(last.out)
         /\ last.out.sub = i.payload.sub
         /\ last.out.email = i.payload.email
         /\ Has(last.out, "name") = Has(i.payload, "name")
         /\ Has(last.out, "name") => last.out.name = i.payload.name

C1_Witness ==
    \E i \in issued :
      /\ last.op = "verifyToken" /\ last.token = i.token
      /\ last.at >= (ClaimsOf(i.token).iat + 1) * 1000
      /\ ~Rejected(last.out)
      /\ Has(last.out, "name") /\ last.out.name \in NonAscii

\* C2: for a token issued by createToken, any change to its signature
\* segment makes verifyToken return null.
C2_SignatureChangeRejected ==
    \A i \in issued :
      (/\ last.op = "verifyToken"
       /\ Len(last.token) = 3
       /\ last.token[1] = i.token[1] /\ last.token[2] = i.token[2]
       /\ last.token[3] # i.token[3])
      => last.out = Null

C2_Witness ==
    \E i \in issued :
      /\ last.op = "verifyToken" /\ Len(last.token) = 3
      /\ last.token[1] = i.token[1] /\ last.token[2] = i.token[2]
      /\ last.token[3] = Hmac(AttackerKey, i.token[1], i.token[2])
      /\ last.at < ClaimsOf(i.token).exp * 1000
      /\ last.out = Null

\* C3: a token whose expiresAt is at or before the current time is rejected
\* by verifyToken and by simpleVerifyToken, whatever its signature and
\* whatever the value of expiresAt, 0 included.
C3_ExpiredRejected ==
    (/\ last.op \in {"verifyToken", "simpleVerifyToken"}
     /\ WellFormed(last.token)
     /\ Has(ClaimsOf(last.token), "exp")
     /\ ClaimsOf(last.token).exp * 1000 <= last.at)
    => Rejected(last.out)

\* C4: verifyToken rejects every token whose claims lack a subject or an
\* email, also when the signature is correct and the token is unexpired.
C4_VerifyRequiresIdentity ==
    (/\ last.op = "verifyToken"
     /\ WellFormed(last.token)
     /\ LacksIdentity(last.token))
    => Rejected(last.out)

\* C5: the result of simpleVerifyToken is the same under every environment
\* (signing secret) and for every signature segment put after the same
\* header and claims segments; and it rejects every token whose claims lack
\* subject or email.
C5_QuickCheckIgnoresSecret ==
    last.op = "simpleVerifyToken" =>
      /\ Len(last.token) = 3 =>
            \A e \in Envs :
              \A s \in SigChoices(last.token[1], last.token[2])
                        \cup {i.token[3] : i \in issued} :
                simpleVerifyTokenIn(
                    e, last.at, <<last.token[1], last.token[2], s>>) = last.out
      /\ (WellFormed(last.token) /\ LacksIdentity(last.token))
            => last.out = Null

C5_Witness ==
    /\ last.op = "simpleVerifyToken"
    /\ Len(last.token) = 3
    /\ env.JWT_SECRET = ""
    /\ last.token[3] = Hmac(AttackerKey, last.token[1], last.token[2])
    /\ last.out # Null

\* C6: simpleVerifyToken accepts a token only if it has exactly three
\* segments, its claims segment decodes, subject and email are present and
\* now < expiresAt is confirmed (so a token with no expiresAt is rejected);
\* for any other input it returns null, and it never throws.
C6_QuickCheckFourChecks ==
    last.op = "simpleVerifyToken" =>
      /\ last.out # Throws
      /\ last.out # Null =>
            /\ WellFormed(last.token)
            /\ ~LacksIdentity(last.token)
            /\ Has(ClaimsOf(last.token), "exp")
            /\ last.at < ClaimsOf(last.token).exp * 1000

(***************************************************************************)
(* Properties of the rate limiter (specifications SpecRate, SpecRate2).    *)
(***************************************************************************)
\* the first six calls of the identity were made within one second
Burst(h) == Len(h) >= 6 /\ h[6].at - h[1].at <= 1000

\* C7: for a fresh identity the first 5 checkRateLimit calls made within one
\* second are all allowed (at once), a 6th call in that second is denied, and
\* after a full window (60 s) without calls the next call is allowed.
C7_BurstAndRecovery ==
    \A id \in Identities :
      LET h == hist[id]
      IN  /\ \A n \in DOMAIN h :
                (n <= ATTEMPTS_PER_MINUTE /\ h[n].at - h[1].at <= 1000)
                => (h[n].allowed /\ h[n].done = h[n].at)
          /\ Burst(h) => ~h[6].allowed
          /\ (Len(h) >= 7 /\ Burst(h) /\ h[7].at - h[6].at >= WINDOW_SIZE_MS)
                => (h[7].allowed /\ h[7].done = h[7].at)

C7_Witness ==
    \E id \in Identities :
      LET h == hist[id]
      IN  /\ Len(h) >= 7 /\ Burst(h)
          /\ h[5].at > h[1].at
          /\ ~h[6].allowed
          /\ h[7].at - h[6].at >= WINDOW_SIZE_MS
          /\ h[7].allowed

\* the calls of h allowed (completed as allowed) from time a to time b
AllowedWithin(h, a, b) ==
    Cardinality({n \in DOMAIN h : h[n].allowed /\ a <= h[n].done /\ h[n].done <= b})

RECURSIVE ReplayStep(_, _)
ReplayStep(h, n) ==
    RateLimiter_removeTokens(
        IF n = 1 THEN NewRateLimiter(h[1].at) ELSE ReplayStep(h, n - 1).limiter,
        h[n].at)

\* C9: buckets are independent per identity: whatever calls were made for
\* other identities, every identity's calls are answered, and its limiter
\* is left, as if its own calls had been the only ones.
C9_Independent ==
    \A id \in Identities :
      LET h == hist[id]
      IN  (/\ \A p \in pending : p.id # id
           /\ \A n \in DOMAIN h : h[n].done = h[n].at)
          => /\ (h = <<>>) = (id \notin DOMAIN limiters)
             /\ h # <<>> => limiters[id] = ReplayStep(h, Len(h)).limiter
             /\ \A n \in DOMAIN h :
                   h[n].allowed = Allowed(ReplayStep(h, n).remaining)

C9_Witness ==
    \E a, b \in Identities :
      /\ a # b
      /\ \E n \in DOMAIN hist[a] : \E m \in DOMAIN hist[b] :
            /\ ~hist[a][n].allowed
            /\ hist[b][m].allowed
            /\ hist[b][m].at >= hist[a][n].at

\* no call is ever suspended in the two-identity specification
NoPending == pending = {}

(***************************************************************************)
(* Properties of the system (specification Spec).                          *)
(***************************************************************************)
\* the signature segment is the HMAC of the signing input under the
\* configured secret
SignatureVerifies(token) ==
    /\ env.JWT_SECRET # ""
    /\ token[3] = Hmac(env.JWT_SECRET, token[1], token[2])

\* a forged token: the quick check accepts it, its signature does not verify
ForgedAccepted(token) ==
    /\ token # NoToken
    /\ simpleVerifyToken(token) # Null
    /\ ~SignatureVerifies(token)

HasCookie(request) == TOKEN_NAME \in DOMAIN request.cookies

\* C10: a request to /api/auth/check or /api/auth/me that presents a forged
\* token (accepted by simpleVerifyToken, signature not verifying) is answered
\* 401, without authenticated=true and without user data.
C10_TwoTierSound ==
    (/\ last.op \in {"check", "me"}
     /\ HasCookie(last.request)
     /\ ForgedAccepted(last.request.cookies[TOKEN_NAME]))
      => /\ last.out.status = 401
         /\ "user" \notin DOMAIN last.out.body
         /\ ("authenticated" \in DOMAIN last.out.body
               => ~last.out.body.authenticated)

\* the same request, in a process that has a signing secret
ForgedAnswered401 ==
    (/\ last.op \in {"check", "me"}
     /\ env.JWT_SECRET # ""
     /\ HasCookie(last.request)
     /\ ForgedAccepted(last.request.cookies[TOKEN_NAME]))
      => last.out.status = 401

\* a forged token never yields authenticated=true or user data
ForgedNeverTrusted ==
    (/\ last.op \in {"check", "me"}
     /\ ForgedAccepted(RequestToken(last.request)))
      => /\ last.out.status # 200
         /\ "user" \notin DOMAIN last.out.body
         /\ ("authenticated" \in DOMAIN last.out.body
               => ~last.out.body.authenticated)

\* the forged token passes the route guard to a protected page
ForgedPassesGuard ==
    /\ last.op = "guard"
    /\ last.request.path = <<"dashboard">>
    /\ HasCookie(last.request)
    /\ ForgedAccepted(last.request.cookies[TOKEN_NAME])
    /\ last.out = NextResponse_next

\* the guard's three inputs, read off the request of a page request
IsApiPath(path) == Len(path) > 1 /\ path[1] = "api"
IsPublicOnly(path) ==
    \E r \in {<<"">>, <<"signin">>, <<"signup">>} :
        path = r \/ (Len(path) > Len(r) /\ SubSeq(path, 1, Len(r)) = r)
IsProtected(path) == path # <<>> /\ path[1] = "dashboard"
QuickAccepted(request, ms) ==
    /\ HasCookie(request)
    /\ request.cookies[TOKEN_NAME] # NoToken
    /\ simpleVerifyTokenIn(env, ms, request.cookies[TOKEN_NAME]) # Null

\* C11: on every non-API path an authenticated request to a public-only
\* route is redirected to /dashboard, an unauthenticated request to a
\* protected route is redirected to /signin, and every other combination
\* passes through.
C11_DecisionTable ==
    (last.op = "guard" /\ ~IsApiPath(last.request.path))
      => LET path == last.request.path
             auth == QuickAccepted(last.request, last.at)
         IN  last.out =
               IF IsPublicOnly(path) /\ auth
               THEN [kind |-> "redirect", to |-> <<"dashboard">>]
               ELSE IF IsProtected(path) /\ ~auth
               THEN [kind |-> "redirect", to |-> <<"signin">>]
               ELSE [kind |-> "next"]

\* an unauthenticated request to a page below /dashboard was sent to /signin
C11_Witness ==
    /\ last.op = "guard"
    /\ last.request.path = <<"dashboard", "settings">>
    /\ ~QuickAccepted(last.request, last.at)
    /\ last.out = [kind |-> "redirect", to |-> <<"signin">>]

\* C12: a request whose path is under the API prefix passes through the
\* route guard without a redirect, whatever its cookies.
C12_ApiExempt ==
    (last.op = "guard" /\ IsApiPath(last.request.path))
      => last.out = [kind |-> "next"]

\* an API path named like a protected route, requested without a session
C12_Witness ==
    /\ last.op = "guard"
    /\ last.request.path = <<"api", "dashboard">>
    /\ ~QuickAccepted(last.request, last.at)
    /\ last.out = [kind |-> "next"]

\* the request with the auth_state cookie removed, or set to v
WithoutAuthState(request) ==
    [request EXCEPT !.cookies =
        [n \in DOMAIN request.cookies \ {"auth_state"} |-> request.cookies[n]]]
WithAuthState(request, v) ==
    [request EXCEPT !.cookies =
        [n \in DOMAIN request.cookies \cup {"auth_state"} |->
            IF n = "auth_state" THEN v ELSE request.cookies[n]]]
AuthStateVariants(request) ==
    {WithoutAuthState(request)}
      \cup {WithAuthState(request, v) :
               v \in {<<"authenticated">>, <<"x">>, <<>>}}

\* C13: the guard's decision and the answers of /api/auth/check and
\* /api/auth/me are the same for requests that differ only in the presence
\* or the value of the auth_state cookie.
C13_AuthStateNoAuthority ==
    (last.op \in {"guard", "check", "me"} /\ last.at = now)
      => \A r \in AuthStateVariants(last.request) :
            last.out = CASE last.op = "guard" -> RouteGuard(r)
                         [] last.op = "check" -> CheckGET(r)
                         [] last.op = "me" -> MeGET(r, last.db)

\* a request for /dashboard with the marker cookie and no session cookie was
\* sent to /signin
C13_Witness ==
    /\ last.op = "guard"
    /\ last.request.path = <<"dashboard">>
    /\ "auth_state" \in DOMAIN last.request.cookies
    /\ last.request.cookies["auth_state"] = <<"authenticated">>
    /\ ~HasCookie(last.request)
    /\ last.out = [kind |-> "redirect", to |-> <<"signin">>]

\* a signup step with a well-formed body that reaches the user table
SignupStep ==
    /\ last' # last
    /\ last'.op = "signup"
    /\ last'.db = "up"
    /\ last'.body # [malformed |-> TRUE]
    /\ Len(last'.body.email) = 2
    /\ Len(last'.body.password) >= 8

Registered(email) == \E u \in users : u.email = email

\* the answer carries the created identity and the session cookie
SignupCreated(out, email) ==
    /\ out.status = 201
    /\ "user" \in DOMAIN out.body
    /\ out.body.user.email = email
    /\ TOKEN_NAME \in DOMAIN out.cookies
    /\ out.cookies[TOKEN_NAME].value # NoToken

\* the answer is a conflict, without a session, and no record is added
SignupConflict(out) ==
    /\ out.status = 409
    /\ out.cookies = <<>>
    /\ users' = users
    /\ issued' = issued

\* C14: a signup with a valid e-mail that is not registered and a password
\* of 8 or more characters answers with the created identity and a session
\* cookie, and adds the record; a signup with an e-mail that is registered
\* is answered 409, adds no record and issues no session.
C14_SignupEndToEnd ==
    [][SignupStep =>
         IF Registered(last'.body.email)
         THEN SignupConflict(last'.out)
         ELSE /\ SignupCreated(last'.out, last'.body.email)
              /\ \E u \in users' \ users : u.email = last'.body.email]_vars

\* the same, in a process that has a signing secret
SignupEndToEndWithSecret ==
    [][(SignupStep /\ env.JWT_SECRET # "") =>
         IF Registered(last'.body.email)
         THEN SignupConflict(last'.out)
         ELSE /\ SignupCreated(last'.out, last'.body.email)
              /\ \E u \in users' \ users : u.email = last'.body.email]_vars

\* a signup was answered 409 after a signup with the same e-mail
SignupConflictSeen ==
    /\ last.op = "signup"
    /\ last.out.status = 409
    /\ \E i \in issued : i.payload.email = last.body.email

(***************************************************************************)
(* Properties of login and logout (specifications SpecLogin,               *)
(* SpecLoginWait, Spec).                                                   *)
(***************************************************************************)
\* the body names a user and carries that user's password
CorrectCredentials(body) ==
    /\ body # [malformed |-> TRUE]
    /\ \E u \in users :
          u.email = body.email /\ u.hashedPassword = [bcrypt |-> body.password]

UserOf(body) == CHOOSE u \in users : u.email = body.email

\* a login with correct credentials that the limiter let through, answered
\* by a working user table
GoodLogin ==
    /\ last.op = "login"
    /\ last.db = "up"
    /\ CorrectCredentials(last.body)
    /\ last.out.status # 429
    /\ last.done = now

\* the response carries a session cookie whose token verifies as the user
SessionFor(out, user) ==
    /\ TOKEN_NAME \in DOMAIN out.cookies
    /\ LET payload == verifyToken(out.cookies[TOKEN_NAME].value)
       IN  /\ payload \notin {Null, Throws}
           /\ payload.sub = user.id
           /\ payload.email = user.email

\* C15: a login with correct credentials, when a rate-limit token is
\* available, attaches a session cookie whose token passes verifyToken with
\* subject = the user's id and email = the user's e-mail.
C15_LoginSuccess ==
    GoodLogin => SessionFor(last.out, UserOf(last.body))

\* the same, in a process that has a signing secret
LoginSuccessWithSecret ==
    (GoodLogin /\ env.JWT_SECRET # "")
      => SessionFor(last.out, UserOf(last.body))

LoginSuccessSeen ==
    GoodLogin /\ last.out.status = 200

\* no login is suspended in the two-address specification
LoginNoPending == pending = {}

\* the body names a user and carries another password
WrongPassword(body) ==
    /\ body # [malformed |-> TRUE]
    /\ Len(body.password) >= 1
    /\ \E u \in users :
          u.email = body.email /\ u.hashedPassword # [bcrypt |-> body.password]

\* the last login was the n-th of its address, within a minute of the first
NthInMinute(n) ==
    /\ last.op = "login"
    /\ Len(hist[last.id]) = n
    /\ hist[last.id][n].at = last.at
    /\ last.at - hist[last.id][1].at < 60000

UnknownEmail(body) ==
    /\ body # [malformed |-> TRUE]
    /\ Len(body.email) = 2
    /\ Len(body.password) >= 1
    /\ ~\E u \in users : u.email = body.email

\* the last login got past the limiter and failed on its credentials
CredentialFailure ==
    /\ last.op = "login"
    /\ last.db = "up"
    /\ last.out.status # 429
    /\ UnknownEmail(last.body) \/ WrongPassword(last.body)

\* C17: a login with an unknown e-mail and a login with a registered e-mail
\* and a wrong password get the same response: the same status and the same
\* generic message, and no cookie.
C17_SameCredentialFailure ==
    CredentialFailure
      => /\ last.out.status = 401
         /\ last.out.body = [error |-> "Invalid email or password"]
         /\ last.out.cookies = <<>>
         /\ \A e \in {<<"ann", "x.io">>, <<"bob", "x.io">>, <<"eve", "x.io">>} :
               LET other == [email |-> e, password |-> "wrongsecret"]
               IN  LoginAfterRateLimit(other, "up").response = last.out

\* both kinds of failure have been answered, one of them by a login that
\* had been suspended in the limiter
C17_Witness ==
    /\ CredentialFailure
    /\ UnknownEmail(last.body)
    /\ last.done > last.at
    /\ \E i \in DOMAIN hist[last.id] : hist[last.id][i].allowed

(***************************************************************************)
(* C18.  The e-mail of a request is the one in its body (signup, login)    *)
(* or in the claims of its token (check, me).  The other world is the      *)
(* user table that differs only in whether that e-mail is registered; a    *)
(* record added for it carries a password of its owner's.                  *)
(***************************************************************************)
TokenEmails(request) ==
    LET token == RequestToken(request)
    IN  IF token # NoToken /\ Len(token) = 3
           /\ IsJson(BufferDecode(token[2]))
           /\ Has(ClaimsOf(token), "email")
        THEN {ClaimsOf(token).email}
        ELSE {}

RequestEmails(l) ==
    IF l.op \in {"signup", "login"}
    THEN IF l.body = Malformed THEN {} ELSE {l.body.email}
    ELSE TokenEmails(l.request)

OtherWorld(table, email) ==
    IF \E u \in table : u.email = email
    THEN {u \in table : u.email # email}
    ELSE table \cup
           {[id |-> UserId(Cardinality(table) + 1), email |-> email,
             hashedPassword |-> hashPassword("the owner's secret"),
             name |-> Undefined, createdAt |-> 0]}

AnswerIn(table, l) ==
    CASE l.op = "signup" -> SignupPOSTIn(table, l.body, l.db).response
      [] l.op = "me"     -> MeGETIn(table, l.request, l.db)
      [] l.op = "check"  -> CheckGET(l.request)
      [] l.op = "login"  ->
             IF l.out = TooManyAttempts THEN TooManyAttempts
             ELSE LoginAfterRateLimitIn(table, l.body, l.db).response

EndpointStep(ops) == last' # last /\ last'.op \in ops

SameErrorEitherWay(ops) ==
    EndpointStep(ops) =>
        \A e \in RequestEmails(last') :
            last'.out.status >= 400 =>
                AnswerIn(OtherWorld(users, e), last') = last'.out

\* C18: whenever login, signup, check or me answers a request with an
\* error, it gives the same answer on the user table that differs only in
\* whether the e-mail of the request is registered.
C18_NoErrorRevealsEmail ==
    [][SameErrorEitherWay({"login", "signup", "check", "me"})]_vars

\* the same, for the endpoints other than signup
ErrorsOfCheckAndMeRevealNothing ==
    [][SameErrorEitherWay({"check", "me"})]_vars

\* the same for login, in a process that has its signing secret
LoginErrorsRevealNothingWithSecret ==
    [][env.JWT_SECRET # "" => SameErrorEitherWay({"login"})]_vars

\* a signup for a registered e-mail has been answered 409
SignupRevealsRegistration ==
    /\ last.op = "signup"
    /\ last.out.status = 409
    /\ last.body # Malformed
    /\ Registered(last.body.email)


(***************************************************************************)
(* C19.  A response creates a session when it answers a login with 200 or  *)
(* a signup with 201.                                                      *)
(***************************************************************************)
CreatesSession(l) ==
    \/ l.op = "login" /\ l.out.status = 200
    \/ l.op = "signup" /\ l.out.status = 201

CarriesToken(response) ==
    /\ TOKEN_NAME \in DOMAIN response.cookies
    /\ response.cookies[TOKEN_NAME].httpOnly
    /\ response.cookies[TOKEN_NAME].value # NoToken
    /\ verifyToken(response.cookies[TOKEN_NAME].value) \notin {Null, Throws}

CarriesMarker(response) ==
    /\ AUTH_STATE \in DOMAIN response.cookies
    /\ response.cookies[AUTH_STATE].value = Authenticated
    /\ ~response.cookies[AUTH_STATE].httpOnly

\* C19: every response that creates a session, of a login or of a signup,
\* carries the HTTP-only auth_token cookie holding the token and the
\* auth_state marker cookie.
C19_SessionSetsBothCookies ==
    (last.op \in {"login", "signup"} /\ last.at = now /\ CreatesSession(last))
        => CarriesToken(last.out) /\ CarriesMarker(last.out)

\* every session carries the token cookie
SessionCarriesToken ==
    (last.op \in {"login", "signup"} /\ last.at = now /\ CreatesSession(last))
        => CarriesToken(last.out)

\* the session of a login carries the marker as well
LoginSessionCarriesMarker ==
    (last.op = "login" /\ CreatesSession(last)) => CarriesMarker(last.out)

\* a signup has created a session without the marker cookie
SignupSessionWithoutMarker ==
    /\ last.op = "signup"
    /\ CreatesSession(last)
    /\ CarriesToken(last.out)
    /\ AUTH_STATE \notin DOMAIN last.out.cookies


(***************************************************************************)
(* C20.  The browser that asked for the logout applies the response to     *)
(* the cookies it sent, and then asks for pages.                           *)
(***************************************************************************)
Deletes(response, name) ==
    /\ name \in DOMAIN response.cookies
    /\ response.cookies[name].value = <<>>
    /\ response.cookies[name].maxAge = 0

PageAfterLogout(l, path) ==
    [path |-> path, cookies |-> BrowserApply(l.request.cookies, l.out),
     authorization |-> <<>>]

\* C20: whatever cookies the request carried, the logout response deletes
\* both the auth_token and the auth_state cookie, the browser that applies
\* it keeps neither, and the route guard then treats its page requests as
\* unauthenticated: a protected page is redirected to /signin and every
\* other page passes.
C20_LogoutClearsSession ==
    last.op = "logout" =>
        /\ last.out.status = 200
        /\ Deletes(last.out, TOKEN_NAME)
        /\ Deletes(last.out, AUTH_STATE)
        /\ \A path \in Paths :
             LET after == PageAfterLogout(last, path)
             IN  /\ TOKEN_NAME \notin DOMAIN after.cookies
                 /\ AUTH_STATE \notin DOMAIN after.cookies
                 /\ ~QuickAccepted(after, now)
                 /\ RouteGuard(after) =
                      IF IsProtected(path) /\ ~IsApiPath(path)
                      THEN [kind |-> "redirect", to |-> <<"signin">>]
                      ELSE [kind |-> "next"]

\* a browser whose session the guard accepted has logged out and is sent
\* from the dashboard to /signin
C20_Witness ==
    /\ last.op = "logout"
    /\ last.at = now
    /\ HasCookie(last.request)
    /\ IssuedToken(last.request.cookies[TOKEN_NAME])
    /\ AUTH_STATE \in DOMAIN last.request.cookies
    /\ RouteGuard([path |-> <<"dashboard">>,
                   cookies |-> last.request.cookies,
                   authorization |-> <<>>]) = [kind |-> "next"]
    /\ RouteGuard(PageAfterLogout(last, <<"dashboard">>)) =
         [kind |-> "redirect", to |-> <<"signin">>]


(***************************************************************************)
(* C21.  A process serves traffic once one of its handlers has answered a  *)
(* request.                                                                *)
(***************************************************************************)
RequestOps == {"guard", "check", "me", "signup", "login", "logout"}

\* C21: a process that has no signing secret never handles and answers a
\* request, be it a login, a signup, a check, a me, a logout or a guarded
\* page.
C21_NoSecretNoTraffic ==
    env.JWT_SECRET = "" => last.op \notin RequestOps

\* a process without a signing secret has answered a logout with 200
NoSecretLogoutAnswered ==
    /\ env.JWT_SECRET = ""
    /\ last.op = "logout"
    /\ last.out.status = 200

\* without a secret, every answer that needs the token codec is a 500
NoSecretCodecAnswers500 ==
    (env.JWT_SECRET = "" /\ last.op \in {"check", "me"}
       /\ RequestToken(last.request) # NoToken)
        => last.out.status = 500


(***************************************************************************)
(* C22.  The answer of check or me to a request, computed again on a       *)
(* request put in its place.                                               *)
(***************************************************************************)
AnswerTo(l, request) ==
    IF l.op = "check" THEN CheckGET(request) ELSE MeGET(request, l.db)

HeaderIsBearer(request) ==
    request.authorization # <<>> /\ request.authorization[1] = "Bearer "

\* C22: check and me answer a request that has a cookie token as if it had
\* no Authorization header, and a request that has no cookie token and a
\* Bearer header as if the header's token had come in the cookie; any other
\* header counts for nothing.
C22_BearerFallback ==
    (last.op \in {"check", "me"} /\ last.at = now) =>
        LET request == last.request
            bare == [request EXCEPT !.authorization = <<>>]
        IN  IF getAuthCookie(request) # NoToken
            THEN last.out = AnswerTo(last, bare)
            ELSE IF HeaderIsBearer(request)
            THEN last.out =
                   AnswerTo(last,
                       [bare EXCEPT !.cookies =
                           (TOKEN_NAME :> request.authorization[2])])
            ELSE last.out =
                   AnswerTo(last, [bare EXCEPT !.cookies = <<>>])

\* a request with no cookie and a Bearer token that verifies was answered
\* as authenticated
C22_Witness ==
    /\ last.op = "check"
    /\ last.at = now
    /\ last.request.cookies = <<>>
    /\ HeaderIsBearer(last.request)
    /\ verifyToken(last.request.authorization[2]) \notin {Null, Throws}
    /\ last.out.status = 200
    /\ last.out.body.authenticated

\* a request whose cookie token fails and whose Bearer token verifies was
\* answered 401: the header was not looked at
CookieBeforeHeader ==
    /\ last.op \in {"check", "me"}
    /\ last.at = now
    /\ getAuthCookie(last.request) # NoToken
    /\ verifyToken(getAuthCookie(last.request)) = Null
    /\ HeaderIsBearer(last.request)
    /\ verifyToken(last.request.authorization[2]) \notin {Null, Throws}
    /\ last.out.status = 401


(***************************************************************************)
(* C23.                                                                    *)
(***************************************************************************)
Accepts(token) == token # NoToken /\ verifyToken(token) \notin {Null, Throws}

SaysAuthenticated(out) ==
    "authenticated" \in DOMAIN out.body /\ out.body.authenticated

GivesIdentity(out) == "user" \in DOMAIN out.body

\* C23: check says authenticated=true only for a token verifyToken accepts,
\* with that token's subject and e-mail, and says so whether or not the
\* user table can be read; me gives an identity only for a token
\* verifyToken accepts and a record of the table whose id is the token's
\* subject, and the identity is that record's.
C23_FullVerification ==
    (last.op \in {"check", "me"} /\ last.at = now) =>
        LET token == RequestToken(last.request)
            payload == verifyToken(token)
        IN  /\ (last.op = "check" /\ SaysAuthenticated(last.out)) =>
                  /\ Accepts(token)
                  /\ last.out.body.userId = payload.sub
                  /\ last.out.body.email = Get(payload, "email")
            /\ (last.op = "check" /\ Accepts(token)
                  /\ Truthy(payload, "sub")) => SaysAuthenticated(last.out)
            /\ (last.op = "me" /\ GivesIdentity(last.out)) =>
                  /\ Accepts(token)
                  /\ last.db = "up"
                  /\ \E u \in users :
                       /\ u.id = payload.sub
                       /\ last.out.body.user =
                            [id |-> u.id, email |-> u.email,
                             name |-> u.name, createdAt |-> u.createdAt]

\* check has said authenticated=true while the user table could not be read
C23_Witness ==
    /\ last.op = "check"
    /\ last.at = now
    /\ last.db = "down"
    /\ SaysAuthenticated(last.out)
    /\ Accepts(RequestToken(last.request))

\* me has given the identity of the record the token names
MeGaveIdentity ==
    /\ last.op = "me"
    /\ last.at = now
    /\ GivesIdentity(last.out)
    /\ last.out.status = 200


(***************************************************************************)
(* C24.                                                                    *)
(***************************************************************************)
ExpiresAt(token) == ClaimsOf(token).exp * 1000

PresentedToCheck(token) ==
    CheckGET([path |-> <<"api", "auth">>, cookies |-> (TOKEN_NAME :> token),
              authorization |-> <<>>])

IssuedTokenExpires ==
    \A i \in issued : now >= ExpiresAt(i.token) => ~Accepts(i.token)


(***************************************************************************)
(* C25.  The tokens available to an identity are the content of its        *)
(* bucket: the content left by its last call, and what a call made now     *)
(* would find after the refill.                                            *)
(***************************************************************************)
InRange(content) == 0 <= content /\ content <= BucketSize

\* C25: the bucket of every identity holds between 0 and 5 tokens, both as
\* its last call left it and as refilled up to now, however long ago that
\* call was.
C25_TokensInRange ==
    \A id \in DOMAIN limiters :
        /\ InRange(limiters[id].content)
        /\ InRange(drip(limiters[id], now).content)

\* a bucket that was emptied has been idle for longer than it takes to fill
C25_Witness ==
    \E id \in DOMAIN limiters :
        /\ limiters[id].content < DripsPerToken
        /\ limiters[id].content + (now - limiters[id].lastDrip) > BucketSize
        /\ drip(limiters[id], now).content = BucketSize

\* a bucket holds less than one token right after a call
BucketEmptied ==
    \E id \in DOMAIN limiters :
        limiters[id].content < DripsPerToken /\ limiters[id].lastDrip = now


(***************************************************************************)
(* C26.  A call is granted once the bucket has given it a token: it then   *)
(* returns as allowed.  The tokens made available to an identity are the   *)
(* full bucket its limiter starts with and what has dripped in since.      *)
(***************************************************************************)
Granted(id) ==
    Cardinality({n \in DOMAIN hist[id] : hist[id][n].allowed})
      + Cardinality({p \in pending : p.id = id /\ p.stage = "await"})

CallTimes(id) ==
    {hist[id][n].at : n \in DOMAIN hist[id]}
      \cup {p.at : p \in {q \in pending : q.id = id}}

FirstCallAt(id) ==
    CHOOSE t \in CallTimes(id) : \A u \in CallTimes(id) : t <= u

\* what was granted and what is left is no more than what was available
NoMoreThanAvailable(id) ==
    id \in DOMAIN limiters =>
        Granted(id) * DripsPerToken + limiters[id].content
          <= BucketSize + (limiters[id].lastDrip - FirstCallAt(id))

\* a step that grants a call grants one call, finds a whole token in the
\* refilled bucket and takes it in the same step
GrantTakesToken(id) ==
    Granted(id)' > Granted(id) =>
        /\ Granted(id)' = Granted(id) + 1
        /\ drip(limiterFor(id), now).content >= DripsPerToken
        /\ limiters'[id].content
             = drip(limiterFor(id), now).content - DripsPerToken

\* C26: however the calls for an identity interleave at the await, the
\* calls granted never exceed the tokens made available to the identity,
\* and every grant takes a token of its own out of the bucket: two calls
\* are never granted the same token.
C26_Atomicity ==
    [][\A id \in Identities :
          GrantTakesToken(id) /\ NoMoreThanAvailable(id)']_vars

\* two calls were started at the same moment on a single token: one has it
\* and has not yet returned, the other is waiting for the next
C26_Witness ==
    \E p, q \in pending :
        /\ p.id = q.id /\ p.at = now /\ q.at = now
        /\ p.stage = "await" /\ q.stage = "timer"
        /\ limiters[p.id].content < DripsPerToken
        /\ limiters[p.id].tokensThisInterval < ATTEMPTS_PER_MINUTE - 1

\* a sixth call started before the first five were counted is not denied:
\* it waits for a token
SixthCallHeld ==
    \E q \in pending :
        /\ q.stage = "timer"
        /\ Cardinality({p \in Awaiting : p.at = q.at}) = ATTEMPTS_PER_MINUTE
        /\ hist[q.id] = <<>>


(***************************************************************************)
(* C27.  The reference bucket: it starts full at the identity's first      *)
(* call; each call refills it by the time elapsed, capped at the capacity, *)
(* and is allowed, and takes a token, iff a whole token is there.          *)
(***************************************************************************)
ReferenceCall(b, t) ==
    LET content == Min(b.content + Max(t - b.lastRefill, 0), BucketSize)
    IN  IF content >= DripsPerToken
        THEN [content |-> content - DripsPerToken, lastRefill |-> t,
              allowed |-> TRUE]
        ELSE [content |-> content, lastRefill |-> t, allowed |-> FALSE]

RECURSIVE ReferenceAfter(_, _)
ReferenceAfter(h, n) ==
    ReferenceCall(
        IF n = 1 THEN [content |-> BucketSize, lastRefill |-> h[1].at]
        ELSE ReferenceAfter(h, n - 1),
        h[n].at)

\* every call of the identity so far was answered when it was made
AnsweredInOrder(id) ==
    /\ \A p \in pending : p.id # id
    /\ \A n \in DOMAIN hist[id] : hist[id][n].done = hist[id][n].at

\* C27: on every sequence of calls for an identity, each answered when it
\* was made, checkRateLimit allows exactly the calls the reference bucket
\* allows.
C27_AgreesWithReference ==
    \A id \in Identities :
        AnsweredInOrder(id) =>
            \A n \in DOMAIN hist[id] :
                hist[id][n].allowed = ReferenceAfter(hist[id], n).allowed

\* five calls at once and a sixth one refill period later, which the
\* reference bucket allows, was denied
DeniedAfterRefill ==
    \E id \in Identities :
        LET h == hist[id]
        IN  /\ Len(h) = 6
            /\ \A n \in 1..5 : h[n].at = h[1].at /\ h[n].allowed
            /\ h[6].at = h[1].at + DripsPerToken
            /\ ~h[6].allowed
            /\ ReferenceAfter(h, 6).allowed

\* a call that the reference bucket denies was allowed: an earlier call
\* was denied on the interval's count and left its token in the bucket
AllowedWhereReferenceDenies ==
    \E id \in Identities :
        /\ AnsweredInOrder(id)
        /\ \E n \in DOMAIN hist[id] :
              /\ hist[id][n].allowed
              /\ ~ReferenceAfter(hist[id], n).allowed


(***************************************************************************)
(* C28.                                                                    *)
(***************************************************************************)
\* C28: every checkRateLimit call is answered, allowed or denied, at the
\* moment it is made: no call is waiting for a token, and none was answered
\* later than it was made.
C28_DecidesAtCallTime ==
    /\ pending = {}
    /\ \A id \in DOMAIN hist :
         \A n \in DOMAIN hist[id] : hist[id][n].done = hist[id][n].at

\* a call was held and allowed seconds after it was made
CallHeldThenAllowed ==
    \E id \in DOMAIN hist :
        \E n \in DOMAIN hist[id] :
            hist[id][n].allowed /\ hist[id][n].done >= hist[id][n].at + 1000

\* a login was held in checkRateLimit and answered 200 seconds later
LoginHeldThenGranted ==
    /\ last.op = "login"
    /\ last.done >= last.at + 1000
    /\ last.out.status = 200


(***************************************************************************)
(* C29.                                                                    *)
(***************************************************************************)
\* the configured lifetime in seconds
ConfiguredLifetime ==
    CASE env.JWT_EXPIRES_IN = <<>>  -> 86400
      [] env.JWT_EXPIRES_IN = <<0>> -> 0
      [] env.JWT_EXPIRES_IN = <<1>> -> 1
      [] env.JWT_EXPIRES_IN = <<2>> -> 2

TokenCreated == last.op = "createToken" /\ last.out # Throws

\* issuedAt is the second of issue and expiresAt is the lifetime later
IssuedClaimsRight ==
    TokenCreated =>
        /\ ClaimsOf(last.out).iat = FloorSec(last.at)
        /\ ClaimsOf(last.out).exp = ClaimsOf(last.out).iat + ConfiguredLifetime

\* C29: a token issued by createToken has issuedAt = the second of issue
\* and expiresAt = issuedAt + the configured lifetime (86400 s when none is
\* configured), and its expiresAt is greater than its issuedAt.
C29_IssuedAndExpiry ==
    /\ IssuedClaimsRight
    /\ TokenCreated => ClaimsOf(last.out).exp > ClaimsOf(last.out).iat

\* the same, for a lifetime that is not zero
ExpiryAfterIssueForPositiveLifetime ==
    (TokenCreated /\ ConfiguredLifetime > 0)
        => ClaimsOf(last.out).exp > ClaimsOf(last.out).iat

\* a token was issued with the default lifetime
DefaultLifetimeUsed ==
    /\ TokenCreated
    /\ env.JWT_EXPIRES_IN = <<>>
    /\ ClaimsOf(last.out).exp = ClaimsOf(last.out).iat + 86400

\* a token was issued that expires in the second it was issued
BornExpired ==
    /\ TokenCreated
    /\ ClaimsOf(last.out).exp = ClaimsOf(last.out).iat
    /\ verifyToken(last.out) = Null


(***************************************************************************)
(* C30.                                                                    *)
(***************************************************************************)
\* what checkRateLimit would answer an identity now
RateCheckNow(id) == RateLimiter_removeTokens(limiterFor(id), now)

\* C30: a signup creates no limiter, takes no token, holds no call and is
\* never answered 429, and after it every identity's rate check is
\* answered as it would have been before it.
C30_SignupNotLimited ==
    [][(last' # last /\ last'.op = "signup") =>
          /\ limiters' = limiters
          /\ pending' = pending
          /\ hist' = hist
          /\ last'.out.status # 429
          /\ \A id \in LoginIdentities : RateCheckNow(id)' = RateCheckNow(id)
      ]_vars

\* an address whose logins are being refused has signed up, and its logins
\* are still refused
C30_Witness ==
    /\ last.op = "signup"
    /\ last.at = now
    /\ last.out.status = 201
    /\ IdA \in DOMAIN limiters
    /\ limiters[IdA].tokensThisInterval = ATTEMPTS_PER_MINUTE
    /\ ~Allowed(RateCheckNow(IdA).remaining)


(***************************************************************************)
(* C31.                                                                    *)
(***************************************************************************)
\* the login got past the limiter and the schema, and the user table
\* answered
ReachedCredentials(l) ==
    /\ l.op = "login"
    /\ l.out.status # 429
    /\ l.body # Malformed
    /\ loginSchema(l.body)
    /\ l.db = "up"

\* C31: every login that passes the limiter and the validation has its
\* password compared before it is answered, for an unknown e-mail as for a
\* registered one.
C31_WorkParity == ReachedCredentials(last) => last.compared

\* for a registered e-mail the password is always compared
ComparedWhenRegistered ==
    (ReachedCredentials(last) /\ Registered(last.body.email))
        => last.compared

\* a login with an unknown e-mail was answered 401 without a comparison
UnknownEmailNotCompared ==
    /\ ReachedCredentials(last)
    /\ ~Registered(last.body.email)
    /\ last.out = InvalidCredentials
    /\ last.looked
    /\ ~last.compared


(***************************************************************************)
(* C32.                                                                    *)
(***************************************************************************)
BothAccept(token) == Accepts(token) /\ simpleVerifyToken(token) # Null

BothReject(token) ==
    verifyToken(token) = Null /\ simpleVerifyToken(token) = Null

\* C32: at every moment, a token issued by createToken is accepted by both
\* simpleVerifyToken and verifyToken if the moment is before its expiresAt,
\* and rejected by both from its expiresAt on.
C32_TiersAgreeOnIssued ==
    \A i \in issued :
        IF now < ExpiresAt(i.token)
        THEN BothAccept(i.token)
        ELSE BothReject(i.token)

\* half a second before it expires, an issued token with a name outside
\* ASCII is accepted by both
C32_Witness ==
    \E i \in issued :
        /\ now + 500 = ExpiresAt(i.token)
        /\ Has(i.payload, "name") /\ i.payload.name \in NonAscii
        /\ BothAccept(i.token)

\* at the moment it expires an issued token is rejected by both
BothRejectAtExpiry ==
    \E i \in issued :
        /\ now = ExpiresAt(i.token)
        /\ ClaimsOf(i.token).exp > ClaimsOf(i.token).iat
        /\ BothReject(i.token)


(***************************************************************************)
(* C33.                                                                    *)
(***************************************************************************)
\* the request the browser sends when it follows the redirect
Followed(l) == [l.request EXCEPT !.path = l.out.to]

\* the guard finds the request authenticated now exactly if it did when it
\* answered
StatusUnchanged(l) ==
    isAuthenticated(l.request) <=> QuickAccepted(l.request, l.at)

Redirected(l) == l.op = "guard" /\ l.out.kind = "redirect"

\* C33: when the route guard answers with a redirect and the request's
\* authentication status is unchanged, the redirect goes to /dashboard for
\* an authenticated request and to /signin for an unauthenticated one, and
\* the guard lets the request for that path pass: no second redirect.
C33_RedirectsSettle ==
    (Redirected(last) /\ StatusUnchanged(last))
      => /\ last.out.to =
              IF isAuthenticated(last.request)
              THEN <<"dashboard">> ELSE <<"signin">>
         /\ RouteGuard(Followed(last)) = NextResponse_next

\* both redirects happen and settle
C33_Witness ==
    /\ Redirected(last) /\ StatusUnchanged(last)
    /\ isAuthenticated(last.request)
    /\ last.request.path = <<"signin", "help">>
    /\ RouteGuard(Followed(last)) = NextResponse_next

UnauthenticatedRedirectSettles ==
    /\ Redirected(last) /\ StatusUnchanged(last)
    /\ ~isAuthenticated(last.request)
    /\ last.request.path = <<"dashboard", "settings">>
    /\ RouteGuard(Followed(last)) = NextResponse_next

\* a token that expires between the redirect and the request that follows
\* it: the request for /dashboard is redirected again, to /signin
SecondRedirectAfterExpiry ==
    /\ Redirected(last) /\ ~StatusUnchanged(last)
    /\ last.out.to = <<"dashboard">>
    /\ RouteGuard(Followed(last)) = NextResponse_redirect(<<"signin">>)


(***************************************************************************)
(* The Dashboard page in a browser.                                         *)
(*                                                                         *)
(* browser.jar is the cookie jar, browser.at the page shown; user,          *)
(* isLoading, error, retryCount and authChecked are the state of the        *)
(* Dashboard component; inflight is what the page waits for: the answer of  *)
(* a fetch, a timer, or a navigation that the router has begun.             *)
(***************************************************************************)
MaxBrowserTicks == 3

\* error is a string or null, and the page tests it for truth only: null
\* is written as the empty string
NoError == ""

\* useState(...) of a Dashboard that has just been mounted
DashboardMounted ==
    [user |-> Null, isLoading |-> TRUE, error |-> NoError, retryCount |-> 0,
     authChecked |-> FALSE]

BrowserAt(page, jar) ==
    [at |-> page, jar |-> jar, inflight |-> "none", meRequests |-> 0]
      @@ DashboardMounted

\* the page is loaded and the authentication verification effect runs:
\* authChecked is false, fetch('/api/auth/check') is sent
DashboardLoaded(jar) ==
    [at |-> "dashboard", jar |-> jar, inflight |-> "check",
     meRequests |-> 0] @@ DashboardMounted

BrowserRequest(path) ==
    [path |-> path, cookies |-> browser.jar, authorization |-> <<>>]

\* res.ok
Ok(response) == 200 <= response.status /\ response.status <= 299

\* a forged cookie without exp: the route guard never finds it expired
BrowserJars == {<<>>, ForgedCookie}

InitBrowser ==
    /\ now = StartSec * 1000
    /\ env \in LoginEnvs
    /\ users = {Ann}
    /\ issued = {}
    /\ limiters = <<>>
    /\ pending = {}
    /\ hist = [id \in LoginIdentities |-> <<>>]
    /\ ticks = 0
    /\ last = [op |-> "start"]
    /\ \E jar \in BrowserJars : browser = BrowserAt("signin", jar)

TickBrowser ==
    /\ ticks < MaxBrowserTicks
    /\ now' = now + 1000
    /\ ticks' = ticks + 1
    /\ UNCHANGED <<browser, env, users, issued, limiters, pending, hist, last>>

\* the user signs in with her password; the limiter lets the login through
SignIn ==
    LET a == LoginAfterRateLimit(Ann_Login, "up")
    IN  /\ browser.at = "signin"
        /\ browser.inflight = "none"
        /\ issued = {}
        /\ issued' = issued \cup SessionsOf(a.response)
        /\ browser' = [browser EXCEPT !.jar = BrowserApply(@, a.response)]
        /\ UNCHANGED <<now, env, users, rateVars, last>>

\* the user opens /dashboard: the route guard runs, then the page is loaded
OpenDashboard ==
    LET out == RouteGuard(BrowserRequest(<<"dashboard">>))
    IN  /\ browser.inflight = "none"
        /\ browser.at # "dashboard"
        /\ browser' = IF out = NextResponse_next
                      THEN DashboardLoaded(browser.jar)
                      ELSE BrowserAt("signin", browser.jar)
        /\ UNCHANGED <<now, env, users, issued, rateVars, last>>

\* fetch('/api/auth/check').then(...).catch(...)
CheckAnswered ==
    \E network \in {"up", "down"} :
      LET res == CheckGET(BrowserRequest(<<"api", "auth">>))
      IN  /\ browser.inflight = "check"
          /\ browser' =
               IF network = "down" \/ ~Ok(res)
               THEN [browser EXCEPT !.inflight = "navigate"]
               ELSE [browser EXCEPT !.authChecked = TRUE,
                                    !.inflight = "me",
                                    !.meRequests = @ + 1]
          /\ UNCHANGED <<now, env, users, issued, rateVars, last>>

\* fetchUserData: the answer of fetch('/api/auth/me')
fetchUserData(network, response) ==
    IF network = "up" /\ Ok(response)
    THEN [browser EXCEPT !.user = response.body.user,
                         !.isLoading = FALSE, !.inflight = "none"]
    ELSE IF network = "up" /\ response.status = 401
    THEN IF browser.retryCount >= 2
         THEN [browser EXCEPT !.inflight = "navigate"]
         ELSE [browser EXCEPT !.inflight = "retry"]
    ELSE [browser EXCEPT !.error = "Error loading user data",
                         !.isLoading =
                             IF browser.retryCount >= 2 THEN FALSE ELSE @,
                         !.inflight = "none"]

MeAnswered ==
    \E network \in {"up", "down"}, db \in {"up", "down"} :
      /\ browser.inflight = "me"
      /\ browser' =
           fetchUserData(network,
                         MeGET(BrowserRequest(<<"api", "auth">>), db))
      /\ UNCHANGED <<now, env, users, issued, rateVars, last>>

\* setTimeout(() => setRetryCount(prev => prev + 1), 1000): the effect runs
\* again and sends the next request
RetryTimer ==
    /\ browser.inflight = "retry"
    /\ browser' = [browser EXCEPT !.retryCount = @ + 1, !.inflight = "me",
                                  !.meRequests = @ + 1]
    /\ UNCHANGED <<now, env, users, issued, rateVars, last>>

\* router.replace('/') or router.push('/') meets the route guard, which lets
\* the navigation pass: the Dashboard is left
NavigatePasses ==
    /\ browser.inflight = "navigate"
    /\ RouteGuard(BrowserRequest(<<"">>)) = NextResponse_next
    /\ browser' = BrowserAt("home", browser.jar)
    /\ UNCHANGED <<now, env, users, issued, rateVars, last>>

\* ... or the route guard redirects the navigation to /dashboard, and the
\* router loads the page
NavigateRedirectedLoads ==
    /\ browser.inflight = "navigate"
    /\ RouteGuard(BrowserRequest(<<"">>))
         = NextResponse_redirect(<<"dashboard">>)
    /\ browser' = DashboardLoaded(browser.jar)
    /\ UNCHANGED <<now, env, users, issued, rateVars, last>>

\* ... or the router finds itself on the page it is on already and keeps the
\* mounted component with its state: no effect runs
NavigateRedirectedKeeps ==
    /\ browser.inflight = "navigate"
    /\ RouteGuard(BrowserRequest(<<"">>))
         = NextResponse_redirect(<<"dashboard">>)
    /\ browser' = [browser EXCEPT !.inflight = "none"]
    /\ UNCHANGED <<now, env, users, issued, rateVars, last>>

PageStep ==
    \/ CheckAnswered
    \/ MeAnswered
    \/ RetryTimer
    \/ NavigatePasses
    \/ NavigateRedirectedLoads
    \/ NavigateRedirectedKeeps

NextBrowser ==
    \/ TickBrowser
    \/ SignIn
    \/ OpenDashboard
    \/ CheckAnswered
    \/ MeAnswered
    \/ RetryTimer
    \/ NavigatePasses
    \/ NavigateRedirectedLoads
    \/ NavigateRedirectedKeeps

\* Every fetch is answered or fails, every timer fires and every navigation
\* the router has begun ends; the user and the clock owe nothing.
SpecBrowser ==
    InitBrowser /\ [][NextBrowser]_vars /\ WF_vars(PageStep)

(***************************************************************************)
(* C34.                                                                    *)
(***************************************************************************)
\* a token in the jar that the route guard accepts and the endpoints reject
HoldsHalfAccepted ==
    /\ TOKEN_NAME \in DOMAIN browser.jar
    /\ simpleVerifyToken(browser.jar[TOKEN_NAME]) # Null
    /\ ~Accepts(browser.jar[TOKEN_NAME])

\* nothing is outstanding: the page stays as it is until the user acts
Settled == browser.inflight = "none"

SentBackByCheck ==
    /\ browser.at = "dashboard" /\ HoldsHalfAccepted
    /\ ~browser.authChecked
    /\ browser.inflight = "navigate"

(***************************************************************************)
(* C35.                                                                    *)
(***************************************************************************)
LeftLoading ==
    \/ browser.at # "dashboard"
    \/ ~browser.isLoading /\ (browser.user # Null \/ browser.error # NoError)

\* C35: once the auth check has succeeded the dashboard page eventually
\* shows the user, shows the error or navigates away, whatever the answers
\* of /api/auth/me are.
C35_LeavesLoading ==
    (browser.at = "dashboard" /\ browser.authChecked) ~> LeftLoading

\* at most three requests to /api/auth/me are sent by one page
AtMostThreeMeRequests == browser.at # "none" => browser.meRequests <= 3

\* the first request fails otherwise than with 401: the error is stored, the
\* page keeps showing the loading state and nothing is outstanding
StuckLoading ==
    /\ browser.at = "dashboard" /\ browser.authChecked
    /\ browser.retryCount = 0
    /\ browser.error # NoError /\ browser.isLoading
    /\ browser.inflight = "none"

\* three answers of 401 and the page navigates away
ThreeTimes401 ==
    /\ browser.at = "dashboard"
    /\ browser.retryCount = 2 /\ browser.meRequests = 3
    /\ browser.inflight = "navigate"

\* the user is shown
UserShown ==
    /\ browser.at = "dashboard"
    /\ ~browser.isLoading /\ browser.user # Null


(***************************************************************************)
(* C36.                                                                    *)
(***************************************************************************)
AnySignupStep == last' # last /\ last'.op = "signup"

\* C36: a signup answered with an error status leaves the user table as it
\* was; a record is added only by a signup answered 201 with a session
\* cookie.
C36_SignupAllOrNothing ==
    [][AnySignupStep =>
         /\ last'.out.status # 201 => users' = users
         /\ users' # users =>
              /\ last'.out.status = 201
              /\ TOKEN_NAME \in DOMAIN last'.out.cookies]_vars

\* every error other than the failure to create the token leaves the table
\* as it was
ErrorBeforeCreateAddsNothing ==
    [][(AnySignupStep /\ last'.out.status # 201 /\ env.JWT_SECRET # "")
         => users' = users]_vars

\* a signup was answered 500 and its record is in the table
RecordLeftBy500 ==
    /\ last.op = "signup"
    /\ last.out.status = 500
    /\ last.out.cookies = <<>>
    /\ last.body # Malformed
    /\ \E u \in users : u.email = last.body.email /\ u.createdAt = last.at


(***************************************************************************)
(* Concurrent signups: a request is suspended at each await of the         *)
(* handler, so another request can run between its lookup and its create.  *)
(***************************************************************************)
RaceRequests == {1, 2, 3}

\* requests 1 and 2 carry the same e-mail, request 3 another one
RaceBody(r) ==
    [email |-> IF r = 3 THEN <<"bob", "x.io">> ELSE <<"ann", "x.io">>,
     password |-> "longsecret",
     name |-> Undefined]

Answered(r) == hist[r] # <<>>

InitSignupRace ==
    /\ now = StartSec * 1000
    /\ env \in LoginEnvs
    /\ users = {}
    /\ issued = {}
    /\ limiters = <<>>
    /\ pending = {}
    /\ hist = [r \in RaceRequests |-> <<>>]
    /\ ticks = 0
    /\ last = [op |-> "start"]
    /\ browser = NoBrowser

\* const existingUser = await prisma.user.findUnique({ where: { email } })
SignupLookup ==
    \E r \in RaceRequests :
      /\ ~Answered(r)
      /\ \A p \in pending : p.req # r
      /\ pending' = pending \cup
             {[req |-> r, body |-> RaceBody(r),
               existingUser |-> findUnique("email", RaceBody(r).email)]}
      /\ last' = [op |-> "signup lookup", req |-> r, at |-> now]
      /\ UNCHANGED <<browser, now, env, users, issued, limiters, hist, ticks>>

\* The handler from `if (existingUser)` on. email is a unique field of the
\* user model (findUnique takes no other): prisma.user.create throws when a
\* record with the e-mail exists, and the catch answers 500.
SignupAfterLookup(existingUser, body) ==
    LET user == [id |-> UserId(Cardinality(users) + 1),
                 email |-> body.email,
                 hashedPassword |-> hashPassword(body.password),
                 name |-> body.name,
                 createdAt |-> now]
        token == createToken(Payload(user.id, user.email, user.name))
        failed == NextResponse_json([error |-> "Failed to create user"], 500)
    IN  IF existingUser # Null
        THEN [response |->
                  NextResponse_json(
                      [error |-> "User with this email already exists"], 409),
              users |-> users]
        ELSE IF findUnique("email", body.email) # Null
        THEN [response |-> failed, users |-> users]
        ELSE IF token = Throws
        THEN [response |-> failed, users |-> users \cup {user}]
        ELSE [response |->
                  setAuthCookie(token,
                      NextResponse_json(
                          [success |-> TRUE,
                           user |-> [id |-> user.id, email |-> user.email,
                                     name |-> user.name]], 201)),
              users |-> users \cup {user}]

SignupFinish ==
    \E p \in pending :
      LET r == SignupAfterLookup(p.existingUser, p.body)
      IN  /\ pending' = pending \ {p}
          /\ users' = r.users
          /\ issued' = issued \cup SessionsOf(r.response)
          /\ hist' = [hist EXCEPT ![p.req] = <<r.response>>]
          /\ last' = [op |-> "signup", req |-> p.req, body |-> p.body,
                      at |-> now, out |-> r.response]
          /\ UNCHANGED <<browser, now, env, limiters, ticks>>

NextSignupRace ==
    \/ SignupLookup
    \/ SignupFinish

SpecSignupRace == InitSignupRace /\ [][NextSignupRace]_vars

(***************************************************************************)
(* C37.                                                                    *)
(***************************************************************************)
SameEmail == {r \in RaceRequests : RaceBody(r).email = <<"ann", "x.io">>}

AnsweredWith(status) ==
    {r \in SameEmail : Answered(r) /\ hist[r][1].status = status}

RecordsOf(email) == {u \in users : u.email = email}

\* C37: however concurrent signups with the same e-mail interleave, at most
\* one record with the e-mail exists, at most one of them is answered 201
\* with a session, and every other one is answered 409.
C37_OneWinnerOthersConflict ==
    /\ Cardinality(RecordsOf(<<"ann", "x.io">>)) <= 1
    /\ Cardinality(AnsweredWith(201)) <= 1
    /\ \A r \in AnsweredWith(201) : TOKEN_NAME \in DOMAIN hist[r][1].cookies
    /\ (\A r \in SameEmail : Answered(r))
         => \E w \in SameEmail :
              \A r \in SameEmail \ {w} : hist[r][1].status = 409

\* the part that holds: one record and one session at most
OneRecordOneSession ==
    /\ Cardinality(RecordsOf(<<"ann", "x.io">>)) <= 1
    /\ Cardinality(AnsweredWith(201)) <= 1

\* with a signing secret: both requests looked before either created, one
\* was answered 201 and the other 500
RaceLoserAnswered500 ==
    /\ env.JWT_SECRET # ""
    /\ AnsweredWith(201) # {}
    /\ AnsweredWith(500) # {}
    /\ Cardinality(RecordsOf(<<"ann", "x.io">>)) = 1

\* one after the other, the second is answered 409
LaterSignupAnswered409 ==
    /\ AnsweredWith(201) # {}
    /\ AnsweredWith(409) # {}


(***************************************************************************)
(* C39: logins from several x-forwarded-for headers.                       *)
(***************************************************************************)
MaxIdentityLogins == 4

\* no header; two lists with the same first address, one of them with a
\* blank before it; a list with another first address and the same
\* addresses; the placeholder itself as the address
IdentityHeaders ==
    { <<>>,
      <<"10.0.0.1", "10.0.0.2">>,
      <<" 10.0.0.1">>,
      <<"10.0.0.2", "10.0.0.1">>,
      <<"unknown-ip">> }

IdentityLogin ==
    /\ LoginsMade < MaxIdentityLogins
    /\ LoginFrom({<<Ann_Login, "up">>}, IdentityHeaders)

NextIdentity ==
    \/ TickLogin
    \/ IdentityLogin

SpecIdentity == InitLogin /\ [][NextIdentity]_vars

\* the bucket a login with this header takes from
BucketOf(forwarded) ==
    LoginIdentifier(getClientIp([forwarded |-> forwarded]))

\* the first entry of the list, without the blanks around it
FirstEntry(forwarded) == trim(forwarded[1])

\* the buckets a login step has changed
Touched == {k \in DOMAIN limiters' : k \notin DOMAIN limiters
                                       \/ limiters'[k] # limiters[k]}

\* C39: a login takes from one bucket, and among the requests that could
\* follow it exactly those with the same first x-forwarded-for entry take
\* from that bucket if it has the header, and every request without the
\* header if it has none.
C39_IdentityByFirstEntry ==
    [][(last' # last /\ last'.op = "login") =>
          LET h == last'.forwarded
          IN  /\ Touched = {last'.id}
              /\ \A k \in LoginIdentities \ {last'.id} : hist'[k] = hist[k]
              /\ Len(hist'[last'.id]) = Len(hist[last'.id]) + 1
              /\ \A h2 \in IdentityHeaders :
                   /\ (h # <<>> /\ h2 # <<>>) =>
                        ((BucketOf(h2) = last'.id)
                           <=> FirstEntry(h2) = FirstEntry(h))
                   /\ (h = <<>> /\ h2 = <<>>) => BucketOf(h2) = last'.id
      ]_vars

\* two logins with different lists and the same first entry: the second
\* found the bucket the first had taken from
C39_Witness ==
    /\ last.op = "login"
    /\ last.forwarded = <<" 10.0.0.1">>
    /\ Len(hist[last.id]) = 2
    /\ hist["login_10.0.0.2"] # <<>>
    /\ hist["login_unknown-ip"] = <<>>

\* two logins without the header took from the one fallback bucket
FallbackShared ==
    /\ last.op = "login"
    /\ last.forwarded = <<>>
    /\ Len(hist["login_unknown-ip"]) = 2
    /\ \A k \in Identities : hist[k] = <<>>


(***************************************************************************)
(* C38.                                                                    *)
(***************************************************************************)
SuccessStatus(op) == IF op = "login" THEN 200 ELSE 201

SetsSessionCookie(out) ==
    /\ TOKEN_NAME \in DOMAIN out.cookies
    /\ out.cookies[TOKEN_NAME].value # NoToken

\* C38: the response of a login or a signup sets the auth_token cookie
\* exactly if its status is the success status, 200 for a login and 201 for
\* a signup; a response with 400, 401, 409, 429 or 500 sets no cookie.
C38_SessionOnlyOnSuccess ==
    last.op \in {"login", "signup"} =>
        /\ SetsSessionCookie(last.out)
             <=> last.out.status = SuccessStatus(last.op)
        /\ last.out.status # SuccessStatus(last.op) => last.out.cookies = <<>>

\* a login refused for its password after a signup that opened a session
C38_Witness ==
    /\ last.op = "login"
    /\ last.out.status = 401
    /\ last.out.cookies = <<>>
    /\ issued # {}

SignupSessionOn201 ==
    /\ last.op = "signup"
    /\ last.out.status = 201
    /\ SetsSessionCookie(last.out)

LoginSessionOn200 ==
    /\ last.op = "login"
    /\ last.out.status = 200
    /\ SetsSessionCookie(last.out)

RefusedByLimiterWithoutCookie ==
    /\ last.op = "login"
    /\ last.out.status = 429
    /\ last.out.cookies = <<>>

SignupErrorWithoutCookie(status) ==
    /\ last.op = "signup"
    /\ last.out.status = status
    /\ last.out.cookies = <<>>

SignupConflictWithoutCookie == SignupErrorWithoutCookie(409)
SignupInvalidWithoutCookie == SignupErrorWithoutCookie(400)
SignupFailedWithoutCookie == SignupErrorWithoutCookie(500)

====
